---- MODULE Spec2Model ----
(***************************************************************************)
(* Model of hm-mqtt-bridge.py: the HomematicMqttBridge class.  The state   *)
(* is the two registries (_ha_devices, _ha_attributes); the operations are *)
(* the two callbacks of the device connection (_system_callback,           *)
(* _event_callback) and the bus message handler (_process_packet).         *)
(*                                                                         *)
(* Python strings are sequences of tokens, so that formatting, joining and *)
(* splitting are computed.  Python values are tagged records (Str, Int,    *)
(* Bool, Float, None, List, Dict), so that ==, truthiness and str() follow *)
(* Python's rules (True == 1, 0 is falsy, str(None) = "None").             *)
(***************************************************************************)
EXTENDS Integers, Sequences, FiniteSets, TLC

(* ------------------------------ bounds --------------------------------- *)

\* longest discovery batch delivered by one newDevices call
MaxBatch == 2

\* largest integer carried by an integer-valued maintenance flag
MaxFlagValue == 2

\* the step, in thousandths, of the grid of shutter levels
LevelStep == 3

\* the largest code a rotary handle or a smoke detector reports
MaxDecodeValue == 4

\* a callback begins only while at most this many requests have not yet
\* reached the bus client
MaxBacklog == 2

(* --------------------------- Python values ----------------------------- *)

EmptyDict == [x \in {} |-> 0]

PyNone == [k |-> "none", n |-> 0, s |-> <<>>, l |-> <<>>, d |-> EmptyDict]

PyStr(s) == [k |-> "str", n |-> 0, s |-> s, l |-> <<>>, d |-> EmptyDict]

PyInt(i) == [k |-> "int", n |-> i, s |-> <<>>, l |-> <<>>, d |-> EmptyDict]

PyBool(b) == [k |-> "bool", n |-> IF b THEN 1 ELSE 0, s |-> <<>>, l |-> <<>>, d |-> EmptyDict]

PyFloat(m) == [k |-> "float", n |-> m, s |-> <<>>, l |-> <<>>, d |-> EmptyDict]

PyList(l) == [k |-> "list", n |-> 0, s |-> <<>>, l |-> l, d |-> EmptyDict]

PyDict(d) == [k |-> "dict", n |-> 0, s |-> <<>>, l |-> <<>>, d |-> d]

IsNumber(v) == v.k \in {"bool", "int", "float"}

\* numeric value in thousandths (a float carries its thousandths in n)
Num(v) == IF v.k = "float" THEN v.n ELSE v.n * 1000

\* Python's bool(v)
Truthy(v) ==
    CASE v.k = "none" -> FALSE
      [] v.k = "str" -> v.s /= <<>>
      [] v.k = "list" -> v.l /= <<>>
      [] v.k = "dict" -> DOMAIN v.d /= {}
      [] OTHER -> v.n /= 0

\* Python's a == b
PyEq(a, b) ==
    IF IsNumber(a) /\ IsNumber(b) THEN Num(a) = Num(b)
    ELSE a.k = b.k /\ a = b

\* dict.get(key), None when the key is missing
Get(d, key) == IF key \in DOMAIN d THEN d[key] ELSE PyNone

\* d[key] = v
Put(d, key, v) == [x \in DOMAIN d \cup {key} |-> IF x = key THEN v ELSE d[x]]

(* --------------------------- Python strings ---------------------------- *)

Digits == <<"0", "1", "2", "3", "4", "5", "6", "7", "8", "9">>

RECURSIVE NatToStr(_)
\* str(i) of a natural number: its decimal digits
NatToStr(i) == IF i < 10 THEN <<Digits[i + 1]>> ELSE NatToStr(i \div 10) \o <<Digits[(i % 10) + 1]>>

\* str(i) of an integer
IntToStr(i) == IF i < 0 THEN <<"-">> \o NatToStr(-i) ELSE NatToStr(i)

\* str(v) as used by f-strings and % formatting
Fmt(v) ==
    CASE v.k = "str" -> v.s
      [] v.k = "int" -> IntToStr(v.n)
      [] v.k = "bool" -> IF v.n = 1 THEN <<"True">> ELSE <<"False">>
      [] v.k = "none" -> <<"None">>
      [] OTHER -> <<"?">>

RECURSIVE IndexOf(_, _, _)
\* position of the first token c of s at or after i, 0 when there is none
IndexOf(s, c, i) ==
    IF i > Len(s) THEN 0
    ELSE IF s[i] = c THEN i
    ELSE IndexOf(s, c, i + 1)

RECURSIVE Split(_, _)
\* s.split(c): all the pieces between the separators
Split(s, c) ==
    LET i == IndexOf(s, c, 1) IN
    IF i = 0 THEN <<s>>
    ELSE <<SubSeq(s, 1, i - 1)>> \o Split(SubSeq(s, i + 1, Len(s)), c)

\* mutant of Split1: the two parts in the other order
Split1Swapped(s, c) ==
    LET i == IndexOf(s, c, 1) IN
    IF i = 0 THEN <<s>>
    ELSE <<SubSeq(s, i + 1, Len(s)), SubSeq(s, 1, i - 1)>>

\* s.split(c, 1): at most one split, at the first separator
Split1(s, c) ==
    LET i == IndexOf(s, c, 1) IN
    IF i = 0 THEN <<s>>
    ELSE <<SubSeq(s, 1, i - 1), SubSeq(s, i + 1, Len(s))>>

\* str.lower() on the field names that occur
Lower(key) ==
    CASE key = "ADDRESS" -> "address"
      [] key = "TYPE" -> "type"
      [] key = "INDEX" -> "index"
      [] key = "PARENT" -> "parent"
      [] key = "PARENT_TYPE" -> "parent_type"
      [] key = "FIRMWARE" -> "firmware"
      [] key = "CHILDREN" -> "children"
      [] key = "ACTUAL_TEMPERATURE_STATUS" -> "actual_temperature_status"
      [] key = "CONFIG_PENDING" -> "config_pending"
      [] key = "DUTY_CYCLE" -> "duty_cycle"
      [] key = "ERROR_CODE" -> "error_code"
      [] key = "ERROR_OVERHEAT" -> "error_overheat"
      [] key = "LOW_BAT" -> "low_bat"
      [] key = "OPERATING_VOLTAGE_STATUS" -> "operating_voltage_status"
      [] key = "SABOTAGE" -> "sabotage"
      [] key = "TIME_OF_OPERATION_STATUS" -> "time_of_operation_status"
      [] key = "UNREACH" -> "unreach"
      [] key = "RSSI_DEVICE" -> "rssi_device"
      [] key = "LEVEL" -> "level"
      [] key = "STATE" -> "state"
      [] key = "PRESS_SHORT" -> "press_short"
      [] key = "PRESS_LONG" -> "press_long"
      [] key = "WEEK_PROGRAM_CHANNEL_LOCKS" -> "week_program_channel_locks"
      [] key = "SMOKE_DETECTOR_ALARM_STATUS" -> "smoke_detector_alarm_status"
      [] OTHER -> key

(* ------------------------- module constants ---------------------------- *)

HM_COVER_CHANNEL_MAP == [x \in {4} |-> 3]

MQTT_PREFIX == <<"Homematic">>

HM_INTERFACE_ID == <<"mqttbridge">>

HM_REMOTE == <<"default">>

BINARY_SENSOR_TYPES == {<<"MAINTENANCE">>}

COVER_TYPES == {<<"SHUTTER_VIRTUAL_RECEIVER">>}

DEVICE_TRIGGER_TYPES == {<<"KEY_TRANSCEIVER">>}

SENSOR_TYPES ==
    {<<"ALARM_COND_SWITCH_TRANSMITTER">>, <<"BLIND_WEEK_PROFILE">>,
     <<"COND_SWITCH_TRANSMITTER">>, <<"ENERGIE_METER_TRANSMITTER">>,
     <<"ROTARY_HANDLE_TRANSCEIVER">>, <<"SHUTTER_TRANSMITTER">>,
     <<"SMOKE_DETECTOR">>, <<"SWITCH_TRANSMITTER">>, <<"SWITCH_WEEK_PROFILE">>}

SWITCH_TYPES == {<<"SWITCH_VIRTUAL_RECEIVER">>}

SENSOR_UNITS == [x \in {<<"SHUTTER_TRANSMITTER">>} |-> <<"%">>]

MAINTENANCE_FLAGS ==
    {Lower(flag) : flag \in
        {"ACTUAL_TEMPERATURE_STATUS", "CONFIG_PENDING", "DUTY_CYCLE", "ERROR_CODE",
         "ERROR_OVERHEAT", "LOW_BAT", "OPERATING_VOLTAGE_STATUS", "SABOTAGE",
         "TIME_OF_OPERATION_STATUS", "UNREACH"}}

ROTARY_HANDLE_VALUES == [x \in {0, 1, 2} |-> <<"closed", "tilted", "open">>[x + 1]]

SMOKE_DETECTOR_VALUES == [x \in {0, 1, 2, 3} |-> <<"off", "primary", "intrusion", "secondary">>[x + 1]]

(* ------------------------------ the bus -------------------------------- *)

\* dict.update: the entries of e over those of d
Merge(d, e) == [x \in DOMAIN d \cup DOMAIN e |-> IF x \in DOMAIN e THEN e[x] ELSE d[x]]

\* digits of the thousandths part of str(float), without trailing zeros
FracDigits(f) ==
    IF f % 100 = 0 THEN <<Digits[(f \div 100) + 1]>>
    ELSE IF f % 10 = 0 THEN <<Digits[(f \div 100) + 1], Digits[((f \div 10) % 10) + 1]>>
    ELSE <<Digits[(f \div 100) + 1], Digits[((f \div 10) % 10) + 1], Digits[(f % 10) + 1]>>

\* str(x) of a non-negative float held in thousandths: "0.37", "1.0"
FloatToStr(m) == NatToStr(m \div 1000) \o <<".">> \o FracDigits(m % 1000)

\* the message types _publish accepts; any other fails its assertion
Encodable(message) == message.k \in {"dict", "bool", "float", "int", "str"}

\* the bytes _publish hands to the bus client: json.dumps of a dict (its
\* content at the time of the call), OFF/ON for a bool, str() of a number,
\* the text itself for a string
Encode(message) ==
    CASE message.k = "dict" -> [fmt |-> "json", doc |-> message.d, text |-> <<>>]
      [] message.k = "bool" -> [fmt |-> "bytes", doc |-> EmptyDict, text |-> <<<<"OFF", "ON">>[message.n + 1]>>]
      [] message.k = "int" -> [fmt |-> "bytes", doc |-> EmptyDict, text |-> IntToStr(message.n)]
      [] message.k = "float" -> [fmt |-> "bytes", doc |-> EmptyDict, text |-> FloatToStr(message.n)]
      [] OTHER -> [fmt |-> "bytes", doc |-> EmptyDict, text |-> message.s]

\* mutant of Subscribe: the subscription is for the namespace prefix
SubscribePrefix(topic, item) ==
    [op |-> "subscribe", topic |-> MQTT_PREFIX, payload |-> Encode(PyStr(<<>>)), retain |-> FALSE, item |-> item]

\* the request _subscribe hands to the bus client's loop; item is the
\* position of the descriptor of the batch that caused it (0: no batch)
Subscribe(topic, item) ==
    [op |-> "subscribe", topic |-> topic, payload |-> Encode(PyStr(<<>>)), retain |-> FALSE, item |-> item]

\* the request _publish hands to the bus client's loop
Publish(topic, message, retain, item) ==
    [op |-> "publish", topic |-> topic, payload |-> Encode(message), retain |-> retain, item |-> item]

\* mutant of PublishDiscovery: every document goes to the sensor component
PublishDiscoveryAsSensor(component, node_id, object_id, config, item) ==
    Publish(<<"homeassistant", "/", "sensor", "/">> \o node_id \o <<"/">> \o object_id \o <<"/", "config">>,
            PyDict(config), TRUE, item)

\* _publish_discovery: retained unless told otherwise
PublishDiscovery(component, node_id, object_id, config, item) ==
    Publish(<<"homeassistant", "/">> \o component \o <<"/">> \o node_id \o <<"/">> \o object_id \o <<"/", "config">>,
            PyDict(config), TRUE, item)

\* mutant of PublishAvailability: the availability value is not retained
PublishAvailabilityUnretained(address, unreach, item) ==
    Publish(MQTT_PREFIX \o <<"/">> \o address \o <<"/", "availability">>,
            PyStr(IF Truthy(unreach) THEN <<"offline">> ELSE <<"online">>), FALSE, item)

\* _publish_availability
PublishAvailability(address, unreach, item) ==
    Publish(MQTT_PREFIX \o <<"/">> \o address \o <<"/", "availability">>,
            PyStr(IF Truthy(unreach) THEN <<"offline">> ELSE <<"online">>), TRUE, item)

\* mutant of CheckInterfaceId: only the remote's name is compared
CheckInterfaceIdRemoteOnly(interface_id) ==
    Len(interface_id) >= 1 /\ <<interface_id[Len(interface_id)]>> = HM_REMOTE

\* line 146
CheckInterfaceId(interface_id) == interface_id = HM_INTERFACE_ID \o <<"-">> \o HM_REMOTE

(* ----------------------------- discovery ------------------------------- *)

\* the filter of the snapshot comprehension: v not in ("", [])
IsEmptyField(v) == (v.k = "str" /\ v.s = <<>>) \/ (v.k = "list" /\ v.l = <<>>)

\* {k.lower(): v for k, v in dev.items() if v not in ("", [])}
SnapshotOf(dev) ==
    LET kept == {key \in DOMAIN dev : ~IsEmptyField(dev[key])} IN
    [lc \in {Lower(key) : key \in kept} |-> dev[CHOOSE key \in kept : Lower(key) = lc]]

\* the identity record written for a parentless descriptor
IdentityOf(dev) ==
    LET address == Get(dev, "ADDRESS")
        devtype == Get(dev, "TYPE")
        firmware == Get(dev, "FIRMWARE")
        base == [name |-> PyStr(Fmt(devtype) \o <<"_">> \o Fmt(address)),
                 identifiers |-> PyList(<<address>>),
                 manufacturer |-> PyStr(<<"eQ-3">>),
                 model |-> devtype]
    IN IF Truthy(firmware) THEN Put(base, "sw_version", firmware) ELSE base

\* line 238: the identity of the parent, by reference.  Line 232 lets only
\* known parents through; for any other the lookup has nothing to return
DeviceLink(devs, parent) == IF parent.s \in DOMAIN devs THEN PyDict(devs[parent.s]) ELSE PyNone

\* mutant of Dumped: the dict is serialized when the loop runs the coroutine
DumpedLate(config, final) == final

\* line 116: json.dumps runs inside _publish, before the request is handed
\* to the loop, so the document is the dict as it is at the call (config),
\* not as the callback leaves it (final)
Dumped(config, final) == config

\* the requests of one channel descriptor whose parent is known, in the
\* order the code issues them
ChannelRequests(devs, dev, item) ==
    LET address == Get(dev, "ADDRESS")
        devtype == Get(dev, "TYPE")
        index == Get(dev, "INDEX")
        parent == Get(dev, "PARENT")
        parent_type == Get(dev, "PARENT_TYPE")
        node_id == Fmt(parent_type) \o <<"_">> \o Fmt(parent)
        object_id == Fmt(index) \o <<"-">> \o Fmt(devtype)
        parent_topic == MQTT_PREFIX \o <<"/">> \o Fmt(parent)
        base_topic == parent_topic \o <<"/">> \o Fmt(index)
        config == [device |-> DeviceLink(devs, parent)]
        name == PyStr(Fmt(parent_type) \o <<" ">> \o Fmt(devtype) \o <<" ">> \o Fmt(address))
        unique_id == PyStr(<<"Homematic", "-">> \o Fmt(address))
        common == [availability_topic |-> PyStr(parent_topic \o <<"/", "availability">>),
                   json_attributes_topic |-> PyStr(base_topic \o <<"/", "attributes">>),
                   name |-> name,
                   unique_id |-> unique_id]
        stateful == Put(common, "state_topic", PyStr(base_topic \o <<"/", "state">>))
        trigger == [automation_type |-> PyStr(<<"trigger">>),
                    subtype |-> PyStr(<<"button", "_">> \o Fmt(index))]
        command_topic == base_topic \o <<"/", "action">>
        set_position_topic == base_topic \o <<"/", "set_level">>
        position_topic ==
            IF index.k = "int" /\ index.n \in DOMAIN HM_COVER_CHANNEL_MAP
            THEN MQTT_PREFIX \o <<"/">> \o Fmt(parent) \o <<"/">> \o IntToStr(HM_COVER_CHANNEL_MAP[index.n]) \o <<"/", "state">>
            ELSE base_topic \o <<"/", "state">>
    IN
    IF devtype.s \in BINARY_SENSOR_TYPES THEN
        <<PublishDiscovery(<<"binary_sensor">>, node_id, object_id, Merge(config, stateful), item)>>
    ELSE IF devtype.s \in SENSOR_TYPES THEN
        <<PublishDiscovery(<<"sensor">>, node_id, object_id,
            Merge(config,
                  IF devtype.s \in DOMAIN SENSOR_UNITS
                  THEN Put(stateful, "unit_of_measurement", PyStr(SENSOR_UNITS[devtype.s]))
                  ELSE stateful), item)>>
    ELSE IF devtype.s \in DEVICE_TRIGGER_TYPES THEN
        \* lines 264-272: one dict, published, then two of its fields
        \* overwritten, then published again
        LET short == Merge(config, Merge(trigger, [topic |-> PyStr(base_topic \o <<"/", "PRESS_SHORT">>),
                                                   type |-> PyStr(<<"button_short_press">>)]))
            long == Merge(short, [topic |-> PyStr(base_topic \o <<"/", "PRESS_LONG">>),
                                  type |-> PyStr(<<"button_long_press">>)])
        IN
        <<PublishDiscovery(<<"device_automation">>, node_id, object_id \o <<"-", "short">>,
                           Dumped(short, long), item),
          PublishDiscovery(<<"device_automation">>, node_id, object_id \o <<"-", "long">>,
                           Dumped(long, long), item)>>
    ELSE IF devtype.s \in COVER_TYPES THEN
        <<Subscribe(command_topic, item),
          Subscribe(set_position_topic, item),
          PublishDiscovery(<<"cover">>, node_id, object_id,
            Merge(config, Merge(common,
                [command_topic |-> PyStr(command_topic),
                 device_class |-> PyStr(<<"shutter">>),
                 payload_close |-> PyStr(<<"move_down">>),
                 payload_open |-> PyStr(<<"move_up">>),
                 payload_stop |-> PyStr(<<"stop">>),
                 position_closed |-> PyInt(0),
                 position_open |-> PyInt(100),
                 position_topic |-> PyStr(position_topic),
                 set_position_template |-> PyStr(<<"{{ position / 100 }}">>),
                 set_position_topic |-> PyStr(set_position_topic)])), item)>>
    ELSE IF devtype.s \in SWITCH_TYPES THEN
        <<Subscribe(command_topic, item),
          PublishDiscovery(<<"switch">>, node_id, object_id,
            Merge(config, Merge(stateful,
                [command_topic |-> PyStr(command_topic),
                 payload_off |-> PyStr(<<"off">>),
                 payload_on |-> PyStr(<<"on">>),
                 state_off |-> PyStr(<<"OFF">>),
                 state_on |-> PyStr(<<"ON">>)])), item)>>
    ELSE <<>>

\* mutant of ParentKnown: the membership test on _ha_devices is left out
ParentKnownAnyParent(devs, parent, index) == index.k /= "none"

\* line 232: the parent has an identity and the descriptor has an index
ParentKnown(devs, parent, index) == parent.s \in DOMAIN devs /\ index.k /= "none"

\* lines 210-320: a descriptor with an address and a type.  Its snapshot is
\* stored first; then a parentless descriptor writes its identity, a channel
\* of a known parent issues its requests, any other is only logged
Register(st, dev, item) ==
    LET address == Get(dev, "ADDRESS")
        index == Get(dev, "INDEX")
        parent == Get(dev, "PARENT")
        attrs == Put(st.attrs, address.s, SnapshotOf(dev))
    IN
    IF ~Truthy(parent) THEN
        [devs |-> Put(st.devs, address.s, IdentityOf(dev)), attrs |-> attrs, out |-> st.out]
    ELSE IF ParentKnown(st.devs, parent, index) THEN
        [devs |-> st.devs, attrs |-> attrs, out |-> st.out \o ChannelRequests(st.devs, dev, item)]
    ELSE
        [devs |-> st.devs, attrs |-> attrs, out |-> st.out]

\* mutant of NewDevice: an address that already has a snapshot is passed over
NewDeviceOnce(st, dev, item) ==
    IF Truthy(Get(dev, "ADDRESS")) /\ Truthy(Get(dev, "TYPE"))
       /\ Get(dev, "ADDRESS").s \notin DOMAIN st.attrs
    THEN Register(st, dev, item)
    ELSE st

\* one iteration of the loop of _new_devices on the registries and the
\* requests made so far, st = [devs, attrs, out]: a descriptor without an
\* address or a type is passed over
NewDevice(st, dev, item) ==
    IF Truthy(Get(dev, "ADDRESS")) /\ Truthy(Get(dev, "TYPE"))
    THEN Register(st, dev, item)
    ELSE st

RECURSIVE NewDevicesUntilMalformed(_, _, _)
\* mutant of NewDevicesFrom: a descriptor without address or type ends the
\* loop
NewDevicesUntilMalformed(st, devices, item) ==
    IF item > Len(devices) THEN st
    ELSE IF ~(Truthy(Get(devices[item], "ADDRESS")) /\ Truthy(Get(devices[item], "TYPE"))) THEN st
    ELSE NewDevicesUntilMalformed(NewDevice(st, devices[item], item), devices, item + 1)

RECURSIVE NewDevicesFrom(_, _, _)
\* the loop of _new_devices from the descriptor at position item on
NewDevicesFrom(st, devices, item) ==
    IF item > Len(devices) THEN st
    ELSE NewDevicesFrom(NewDevice(st, devices[item], item), devices, item + 1)

\* _new_devices: the whole batch, in batch order
NewDevices(devs, attrs, devices) ==
    NewDevicesFrom([devs |-> devs, attrs |-> attrs, out |-> <<>>], devices, 1)

(* ------------------------------- events -------------------------------- *)

\* chan_type.endswith("_WEEK_PROFILE") on the type tags that occur
EndsWithWeekProfile(chan_type) ==
    chan_type \in {<<"BLIND_WEEK_PROFILE">>, <<"SWITCH_WEEK_PROFILE">>}

\* the flags of the snapshot that the maintenance state sums over
PresentFlags(attrs) == MAINTENANCE_FLAGS \cap DOMAIN attrs

RECURSIVE SumOver(_, _)
\* sum(attrs[flag] for flag in flags), in thousandths
SumOver(attrs, flags) ==
    IF flags = {} THEN 0
    ELSE LET flag == CHOOSE f \in flags : TRUE
         IN Num(attrs[flag]) + SumOver(attrs, flags \ {flag})

\* sum(attrs[flag] for flag in MAINTENANCE_FLAGS if flag in attrs)
FlagSum(attrs) == SumOver(attrs, PresentFlags(attrs))

\* mutant of MaintenanceState: all() in place of the sum
MaintenanceStateAll(attrs) == \A flag \in PresentFlags(attrs) : Truthy(attrs[flag])

\* lines 176-177: bool(sum of the flags present)
MaintenanceState(attrs) == FlagSum(attrs) /= 0

\* mutant of Round100: int(value * 100), the fraction cut off
Truncate100(m) == m \div 10

\* int(round(value * 100)) of a number held in thousandths: Python rounds
\* the float product half to even; 0.545 * 100 is 54.50000000000001 and
\* 0.575 * 100 is 57.49999999999999, the only thousandths of [0, 1] whose
\* product is not the exact one
Round100(m) ==
    LET q == m \div 10
        r == m % 10
    IN  IF m = 545 THEN 55
        ELSE IF m = 575 THEN 57
        ELSE IF r < 5 THEN q
        ELSE IF r > 5 THEN q + 1
        ELSE IF q % 2 = 0 THEN q ELSE q + 1

\* mutant of Decode: the default "unknown" is never taken
DecodeNoDefault(table, value) ==
    IF IsNumber(value) /\ \E x \in DOMAIN table : Num(value) = x * 1000
    THEN <<table[CHOOSE x \in DOMAIN table : Num(value) = x * 1000]>>
    ELSE <<table[CHOOSE x \in DOMAIN table : \A y \in DOMAIN table : x >= y]>>

\* a value dict.get() cannot hash (the TypeError of lines 194 and 198)
Unhashable(value) == value.k \in {"list", "dict"}

\* dict.get(value, "unknown") of the two decode tables: keys compare as
\* Python numbers do (True and 1.0 find the key 1)
Decode(table, value) ==
    IF IsNumber(value) /\ \E x \in DOMAIN table : Num(value) = x * 1000
    THEN <<table[CHOOSE x \in DOMAIN table : Num(value) = x * 1000]>>
    ELSE <<"unknown">>

\* mutant of IsUnreach: every maintenance flag drives the availability topic
IsUnreachAnyFlag(key) == Lower(key) \in MAINTENANCE_FLAGS

\* line 172: the field that drives the availability topic
IsUnreach(key) == key = "UNREACH"

\* line 175: the fields that drive the maintenance state
IsMaintenanceFlag(lc_key) == lc_key \in MAINTENANCE_FLAGS

\* lines 170-202 of _event_callback: the requests of the dispatch on
\* (chan_type, key) and the exception that ends it, if any
Dispatch(attrs, parent, base_topic, key, value) ==
    LET chan_type == attrs["type"].s
        lc_key == Lower(key)
        state_topic == base_topic \o <<"/", "state">>
        none == [out |-> <<>>, raised |-> "none"]
        one(req) == [out |-> <<req>>, raised |-> "none"]
    IN
    IF chan_type = <<"MAINTENANCE">> THEN
        LET avail == IF IsUnreach(key) THEN <<PublishAvailability(parent, value, 0)>> ELSE <<>> IN
        IF IsMaintenanceFlag(lc_key) THEN
            IF \E flag \in PresentFlags(attrs) : ~IsNumber(attrs[flag])
            THEN [out |-> avail, raised |-> "TypeError"]
            ELSE [out |-> avail \o <<Publish(state_topic, PyBool(MaintenanceState(attrs)), TRUE, 0)>>,
                  raised |-> "none"]
        ELSE [out |-> avail, raised |-> "none"]
    ELSE IF chan_type = <<"KEY_TRANSCEIVER">> /\ key \in {"PRESS_SHORT", "PRESS_LONG"} THEN
        IF value.k /= "bool" THEN [out |-> <<>>, raised |-> "AssertionError"]
        ELSE one(Publish(base_topic \o <<"/", key>>, value, FALSE, 0))
    ELSE IF chan_type = <<"SHUTTER_TRANSMITTER">> /\ key = "LEVEL" THEN
        IF ~IsNumber(value) THEN [out |-> <<>>, raised |-> "TypeError"]
        ELSE one(Publish(state_topic, PyInt(Round100(Num(value))), TRUE, 0))
    ELSE IF chan_type = <<"SHUTTER_VIRTUAL_RECEIVER">> /\ key = "LEVEL" THEN
        IF ~IsNumber(value) THEN [out |-> <<>>, raised |-> "TypeError"]
        ELSE one(Publish(state_topic, PyInt(Round100(Num(value))), TRUE, 0))
    ELSE IF EndsWithWeekProfile(chan_type) /\ key = "WEEK_PROGRAM_CHANNEL_LOCKS" THEN
        IF ~Encodable(value) THEN [out |-> <<>>, raised |-> "AssertionError"]
        ELSE one(Publish(state_topic, value, TRUE, 0))
    ELSE IF chan_type = <<"ROTARY_HANDLE_TRANSCEIVER">> /\ key = "STATE" THEN
        IF Unhashable(value) THEN [out |-> <<>>, raised |-> "TypeError"]
        ELSE one(Publish(state_topic, PyStr(Decode(ROTARY_HANDLE_VALUES, value)), TRUE, 0))
    ELSE IF chan_type = <<"SMOKE_DETECTOR">> /\ key = "SMOKE_DETECTOR_ALARM_STATUS" THEN
        IF Unhashable(value) THEN [out |-> <<>>, raised |-> "TypeError"]
        ELSE one(Publish(state_topic, PyStr(Decode(SMOKE_DETECTOR_VALUES, value)), TRUE, 0))
    ELSE IF chan_type = <<"SWITCH_VIRTUAL_RECEIVER">> /\ key = "STATE" THEN
        IF ~Encodable(value) THEN [out |-> <<>>, raised |-> "AssertionError"]
        ELSE one(Publish(state_topic, value, TRUE, 0))
    ELSE none

\* line 166: old_value != value
AttrChanged(old_value, value) == ~PyEq(old_value, value)

\* mutant of EventResult: the snapshot is published before the new value is
\* written to it
EventResultPublishFirst(all_attrs, interface_id, address, key, value) ==
    IF ~CheckInterfaceId(interface_id) THEN
        [attrs |-> all_attrs, out |-> <<>>, raised |-> "none", ended |-> "interface"]
    ELSE IF address \notin DOMAIN all_attrs \/ DOMAIN all_attrs[address] = {} THEN
        [attrs |-> all_attrs, out |-> <<>>, raised |-> "none", ended |-> "address"]
    ELSE IF Len(Split1(address, ":")) /= 2 THEN
        [attrs |-> all_attrs, out |-> <<>>, raised |-> "ValueError", ended |-> "split"]
    ELSE
        LET parent == Split1(address, ":")[1]
            index == Split1(address, ":")[2]
            base_topic == MQTT_PREFIX \o <<"/">> \o parent \o <<"/">> \o index
            old == all_attrs[address]
            lc_key == Lower(key)
            changed == AttrChanged(Get(old, lc_key), value)
            attrs == IF changed THEN Put(old, lc_key, value) ELSE old
            first == IF changed
                     THEN <<Publish(base_topic \o <<"/", "attributes">>, PyDict(old), TRUE, 0)>>
                     ELSE <<>>
            rest == Dispatch(attrs, parent, base_topic, key, value)
        IN [attrs |-> Put(all_attrs, address, attrs), out |-> first \o rest.out,
            raised |-> rest.raised, ended |-> "dispatch"]

\* _event_callback on the snapshots: the snapshots after it, the requests
\* it made, and how it ended (step: the line group it returned or raised in)
EventResult(all_attrs, interface_id, address, key, value) ==
    IF ~CheckInterfaceId(interface_id) THEN
        [attrs |-> all_attrs, out |-> <<>>, raised |-> "none", ended |-> "interface"]
    ELSE IF address \notin DOMAIN all_attrs \/ DOMAIN all_attrs[address] = {} THEN
        [attrs |-> all_attrs, out |-> <<>>, raised |-> "none", ended |-> "address"]
    ELSE IF Len(Split1(address, ":")) /= 2 THEN
        [attrs |-> all_attrs, out |-> <<>>, raised |-> "ValueError", ended |-> "split"]
    ELSE
        LET parent == Split1(address, ":")[1]
            index == Split1(address, ":")[2]
            base_topic == MQTT_PREFIX \o <<"/">> \o parent \o <<"/">> \o index
            old == all_attrs[address]
            lc_key == Lower(key)
            changed == AttrChanged(Get(old, lc_key), value)
            attrs == IF changed THEN Put(old, lc_key, value) ELSE old
            first == IF changed
                     THEN <<Publish(base_topic \o <<"/", "attributes">>, PyDict(attrs), TRUE, 0)>>
                     ELSE <<>>
            rest == Dispatch(attrs, parent, base_topic, key, value)
        IN [attrs |-> Put(all_attrs, address, attrs), out |-> first \o rest.out,
            raised |-> rest.raised, ended |-> "dispatch"]

(* ------------------------------ commands ------------------------------- *)

DigitSet == {Digits[i] : i \in 1..10}

\* the value of a digit token
DigitValue(c) == (CHOOSE i \in 1..10 : Digits[i] = c) - 1

RECURSIVE DigitsValue(_)
\* the number a non-empty sequence of digit tokens writes
DigitsValue(s) ==
    IF Len(s) = 1 THEN DigitValue(s[1])
    ELSE DigitsValue(SubSeq(s, 1, Len(s) - 1)) * 10 + DigitValue(s[Len(s)])

AllDigits(s) == Len(s) >= 1 /\ \A i \in 1..Len(s) : s[i] \in DigitSet

RECURSIVE Strip(_)
\* str.strip() of blanks, as int() and float() do before parsing
Strip(s) ==
    IF s /= <<>> /\ s[1] = " " THEN Strip(Tail(s))
    ELSE IF s /= <<>> /\ s[Len(s)] = " " THEN Strip(SubSeq(s, 1, Len(s) - 1))
    ELSE s

\* int(s): blanks around, an optional sign, then digits; ok = FALSE is the
\* ValueError
ParseInt(s) ==
    LET b == Strip(s)
        signed == b /= <<>> /\ b[1] \in {"+", "-"}
        body == IF signed THEN Tail(b) ELSE b
    IN  IF AllDigits(body)
        THEN [ok |-> TRUE, n |-> IF signed /\ b[1] = "-" THEN -DigitsValue(body) ELSE DigitsValue(body)]
        ELSE [ok |-> FALSE, n |-> 0]

RECURSIVE Pow10(_)
\* ten to the power n, n >= 0
Pow10(n) == IF n = 0 THEN 1 ELSE 10 * Pow10(n - 1)

RECURSIVE Reduce(_, _)
\* the decimal m / 10^d in lowest terms of ten, so that equal numbers are
\* equal records (0.5 = 0.50 = 5e-1)
Reduce(m, d) ==
    IF d > 0 /\ m % 10 = 0 THEN Reduce(m \div 10, d - 1) ELSE [m |-> m, d |-> d]

\* the level no call carries: the argument of an action without a level
NoLevel == [m |-> 0, d |-> 0]

\* the exponent part of a float literal: an optional sign, then digits
ParseExponent(s) ==
    LET signed == s /= <<>> /\ s[1] \in {"+", "-"}
        body == IF signed THEN Tail(s) ELSE s
    IN  IF AllDigits(body)
        THEN [ok |-> TRUE, n |-> IF signed /\ s[1] = "-" THEN -DigitsValue(body) ELSE DigitsValue(body)]
        ELSE [ok |-> FALSE, n |-> 0]

\* the position of the exponent marker of a float literal, 0 when it has none
ExponentMark(s) ==
    IF IndexOf(s, "e", 1) /= 0 THEN IndexOf(s, "e", 1) ELSE IndexOf(s, "E", 1)

\* float(s): blanks around, an optional sign, then "nan", "inf", "infinity"
\* or a decimal literal (digits with at most one point, an optional
\* exponent). kind is "number" (the value is m / 10^d), "nan", "inf" (signed
\* by m) or "error" (the ValueError). The literals here have few enough
\* digits that the binary rounding of float() moves no value across 0 or 1.
ParseFloat(s) ==
    LET b == Strip(s)
        signed == b /= <<>> /\ b[1] \in {"+", "-"}
        sign == IF signed /\ b[1] = "-" THEN -1 ELSE 1
        body == IF signed THEN Tail(b) ELSE b
        mark == ExponentMark(body)
        mantissa == IF mark = 0 THEN body ELSE SubSeq(body, 1, mark - 1)
        exponent == IF mark = 0 THEN [ok |-> TRUE, n |-> 0]
                    ELSE ParseExponent(SubSeq(body, mark + 1, Len(body)))
        dot == IndexOf(mantissa, ".", 1)
        whole == IF dot = 0 THEN mantissa ELSE SubSeq(mantissa, 1, dot - 1)
        frac == IF dot = 0 THEN <<>> ELSE SubSeq(mantissa, dot + 1, Len(mantissa))
        digits == whole \o frac
        power == exponent.n - Len(frac)
        value == IF power >= 0 THEN Reduce(sign * DigitsValue(digits) * Pow10(power), 0)
                 ELSE Reduce(sign * DigitsValue(digits), -power)
    IN  IF body = <<"nan">> THEN [kind |-> "nan", m |-> 0, d |-> 0]
        ELSE IF body \in {<<"inf">>, <<"infinity">>} THEN [kind |-> "inf", m |-> sign, d |-> 0]
        ELSE IF digits /= <<>> /\ AllDigits(digits) /\ exponent.ok
        THEN [kind |-> "number", m |-> value.m, d |-> value.d]
        ELSE [kind |-> "error", m |-> 0, d |-> 0]

\* mutant of LevelInRange: the range test of line 376 is left out
LevelInRangeAny(level) == level.kind = "number"

\* line 376: 0 <= level <= 1 (false for nan and for both infinities)
LevelInRange(level) == level.kind = "number" /\ 0 <= level.m /\ level.m <= Pow10(level.d)

\* mutant of ValidCoverAction: the payload is not validated
ValidCoverActionAny(data) == TRUE

\* line 362: the payloads a cover channel accepts on its action topic
ValidCoverAction(data) == data \in {<<"move_up">>, <<"move_down">>, <<"stop">>}

\* mutant of ValidSwitchAction: the payload is not validated
ValidSwitchActionAny(data) == TRUE

\* line 385: the payloads a switch channel accepts on its action topic
ValidSwitchAction(data) == data \in {<<"on">>, <<"off">>}

\* a call of a device action: method(channel) or set_level(level, channel);
\* level is the decimal [m, d], NoLevel for the actions without one
Call(method, address, channel, level) ==
    [method |-> method, address |-> address, channel |-> channel, level |-> level]

\* lines 360-390 of _process_packet: the dispatch on capability, channel
\* type and action name
Route(hmdevice, address, channel, name, data) ==
    LET chan_type == hmdevice.CHANNELS[channel] IN
    IF "GenericBlind" \in hmdevice.classes /\ chan_type \in COVER_TYPES THEN
        IF name = <<"action">> THEN
            IF ~ValidCoverAction(data) THEN [calls |-> <<>>, ended |-> "action"]
            ELSE [calls |-> <<Call(data, address, channel, NoLevel)>>, ended |-> "called"]
        ELSE IF name = <<"set_level">> THEN
            IF ParseFloat(data).kind = "error" THEN [calls |-> <<>>, ended |-> "level"]
            ELSE IF ~LevelInRange(ParseFloat(data)) THEN [calls |-> <<>>, ended |-> "range"]
            ELSE [calls |-> <<Call(<<"set_level">>, address, channel,
                                [m |-> ParseFloat(data).m, d |-> ParseFloat(data).d])>>, ended |-> "called"]
        ELSE [calls |-> <<>>, ended |-> "ignored"]
    ELSE IF "GenericSwitch" \in hmdevice.classes /\ chan_type \in SWITCH_TYPES THEN
        IF name = <<"action">> THEN
            IF ~ValidSwitchAction(data) THEN [calls |-> <<>>, ended |-> "action"]
            ELSE [calls |-> <<Call(data, address, channel, NoLevel)>>, ended |-> "called"]
        ELSE [calls |-> <<>>, ended |-> "ignored"]
    ELSE [calls |-> <<>>, ended |-> "ignored"]

\* mutant of Handled: no except clause catches anything
HandledNothing(exc, caught) == exc

\* a try statement whose body raised exc and whose except clauses name the
\* classes caught: what propagates out of it ("none" when it is handled)
Handled(exc, caught) == IF exc \in caught THEN "none" ELSE exc

\* _process_packet: the device actions it invokes, the exception that leaves
\* it and the step it ended in. message = [topic, payload], payload =
\* [valid, text]: valid is whether the bytes decode as UTF-8; devices is the
\* device table of the connection
ProcessPacketResult(devices, message) ==
    LET parts == Split(message.topic, "/")
        drop(step, exc, caught) == [calls |-> <<>>, raised |-> Handled(exc, caught), ended |-> step]
    IN
    IF Len(parts) /= 4 THEN drop("topic", "ValueError", {"ValueError"})
    ELSE IF parts[1] /= MQTT_PREFIX THEN drop("prefix", "none", {})
    ELSE IF ~ParseInt(parts[3]).ok THEN drop("channel", "ValueError", {"ValueError"})
    ELSE IF ~message.payload.valid THEN drop("payload", "UnicodeDecodeError", {"UnicodeDecodeError"})
    ELSE IF parts[2] \notin DOMAIN devices THEN drop("device", "none", {})
    ELSE IF ParseInt(parts[3]).n \notin DOMAIN devices[parts[2]].CHANNELS
         THEN drop("hmchannel", "none", {})
    ELSE LET r == Route(devices[parts[2]], parts[2], ParseInt(parts[3]).n, parts[4], message.payload.text)
         IN  [calls |-> r.calls, raised |-> "none", ended |-> r.ended]

(* ------------------------------- inputs -------------------------------- *)

\* the session identifier the device connection tags its callbacks with,
\* and the one of another client of the same controller
InterfaceIds == {HM_INTERFACE_ID \o <<"-">> \o HM_REMOTE, <<"inventory", "-">> \o HM_REMOTE}

\* the descriptor of a device: no parent, its children listed
DeviceDescriptor(address, devtype, firmware) ==
    [ADDRESS |-> PyStr(address), TYPE |-> PyStr(<<devtype>>), PARENT |-> PyStr(<<>>),
     CHILDREN |-> PyList(<<PyStr(address \o <<":", "0">>)>>), FIRMWARE |-> PyStr(firmware)]

\* the descriptor of a channel of a device
ChannelDescriptor(parent, index, devtype, parent_type) ==
    [ADDRESS |-> PyStr(parent \o <<":">> \o IntToStr(index)), TYPE |-> PyStr(<<devtype>>),
     INDEX |-> PyInt(index), PARENT |-> PyStr(parent), PARENT_TYPE |-> PyStr(<<parent_type>>),
     CHILDREN |-> PyList(<<>>)]

\* d without the field key
Without(d, key) == [x \in DOMAIN d \ {key} |-> d[x]]

\* the descriptors the controller delivers: a shutter actuator D1 with its
\* channels, the same address announced again under another type tag and
\* without firmware, a channel of a device D2 that is never announced, and
\* two malformed descriptors (no INDEX, no TYPE)
Descriptors ==
    <<DeviceDescriptor(<<"D1">>, "HmIP-BROLL", <<"1.0">>),
      DeviceDescriptor(<<"D1">>, "HmIP-BSM", <<>>),
      ChannelDescriptor(<<"D1">>, 0, "MAINTENANCE", "HmIP-BROLL"),
      ChannelDescriptor(<<"D1">>, 1, "KEY_TRANSCEIVER", "HmIP-BROLL"),
      ChannelDescriptor(<<"D1">>, 3, "SHUTTER_TRANSMITTER", "HmIP-BROLL"),
      ChannelDescriptor(<<"D1">>, 4, "SHUTTER_VIRTUAL_RECEIVER", "HmIP-BROLL"),
      ChannelDescriptor(<<"D2">>, 4, "SWITCH_VIRTUAL_RECEIVER", "HmIP-BSM"),
      Without(ChannelDescriptor(<<"D1">>, 5, "SWITCH_VIRTUAL_RECEIVER", "HmIP-BROLL"), "INDEX"),
      Without(ChannelDescriptor(<<"D1">>, 6, "BLIND_WEEK_PROFILE", "HmIP-BROLL"), "TYPE")>>

\* the batches of at most MaxBatch descriptors
Batches == UNION {[1..n -> {Descriptors[i] : i \in 1..Len(Descriptors)}] : n \in 0..MaxBatch}

\* the argument lists of the system callback: (interface id, descriptors),
\* or the interface id alone
SystemArgs == {<<i, b>> : i \in InterfaceIds, b \in Batches} \cup {<<i>> : i \in InterfaceIds}

\* the calls of the system callback, as (src, args): newDevices with every
\* argument list, and another source with the same shape of arguments
SystemCalls ==
    {<<<<"newDevices">>, args>> : args \in SystemArgs}
    \cup {<<<<"deleteDevices">>, <<i, <<Descriptors[1]>>>>>> : i \in InterfaceIds}

\* the (field, value) pairs the controller reports for a maintenance
\* channel: boolean flags, an integer flag, and a field that is no flag
MaintenanceFields ==
    {<<key, PyBool(b)>> : key \in {"UNREACH", "LOW_BAT"}, b \in BOOLEAN}
    \cup {<<"ERROR_CODE", PyInt(i)>> : i \in 0..MaxFlagValue}
    \cup {<<"RSSI_DEVICE", PyInt(1)>>}

\* the levels the controller reports for a shutter channel (thousandths)
LevelFields == {<<"LEVEL", PyFloat(m)>> : m \in {0, 370, 1000}}

\* the notifications delivered, as (address, field, value): for each
\* channel of D1 and D2 the fields of its type, one for the device address
\* D1 itself, one for a channel that was never announced
Notifications ==
    {<<<<"D1", ":", "0">>, f[1], f[2]>> : f \in MaintenanceFields}
    \cup {<<<<"D1", ":", "1">>, key, PyBool(TRUE)>> : key \in {"PRESS_SHORT", "PRESS_LONG"}}
    \cup {<<<<"D1", ":", "3">>, f[1], f[2]>> : f \in LevelFields}
    \cup {<<<<"D1", ":", "4">>, "LEVEL", PyFloat(370)>>}
    \cup {<<<<"D2", ":", "4">>, "STATE", PyBool(b)>> : b \in BOOLEAN}
    \cup {<<<<"D1">>, "UNREACH", PyBool(TRUE)>>, <<<<"D3", ":", "0">>, "UNREACH", PyBool(TRUE)>>}

\* the grid of shutter levels of [0, 1], in thousandths: every LevelStep-th
\* thousandth, the two levels of the examples, and the two whose float
\* product with 100 is inexact
LevelGrid == {m \in 0..1000 : m % LevelStep = 0} \cup {370, 545, 575, 1000}

\* the LEVEL notifications of the shutter channels of D1
LevelNotifications ==
    {<<<<"D1", ":", "3">>, "LEVEL", PyFloat(m)>> : m \in LevelGrid}
    \cup {<<<<"D1", ":", "4">>, "LEVEL", PyFloat(m)>> : m \in {0, 370, 1000}}

\* the descriptors of one channel of each entity kind of the device D1, of a
\* channel of a type no table lists, and of a cover channel of a device D2
\* that is never announced
KindDescriptors ==
    <<DeviceDescriptor(<<"D1">>, "HmIP-BROLL", <<"1.0">>),
      ChannelDescriptor(<<"D1">>, 0, "MAINTENANCE", "HmIP-BROLL"),
      ChannelDescriptor(<<"D1">>, 1, "KEY_TRANSCEIVER", "HmIP-BROLL"),
      ChannelDescriptor(<<"D1">>, 3, "SHUTTER_TRANSMITTER", "HmIP-BROLL"),
      ChannelDescriptor(<<"D1">>, 4, "SHUTTER_VIRTUAL_RECEIVER", "HmIP-BROLL"),
      ChannelDescriptor(<<"D1">>, 5, "SWITCH_VIRTUAL_RECEIVER", "HmIP-BROLL"),
      ChannelDescriptor(<<"D1">>, 7, "DIMMER_VIRTUAL_RECEIVER", "HmIP-BROLL"),
      ChannelDescriptor(<<"D2">>, 6, "SHUTTER_VIRTUAL_RECEIVER", "HmIP-FROLL")>>

\* the batches of at most MaxBatch of these descriptors
KindBatches == UNION {[1..n -> {KindDescriptors[i] : i \in 1..Len(KindDescriptors)}] : n \in 0..MaxBatch}

\* the descriptors of the device D1 and two of its channels, and the
\* descriptors the loop rejects: one without address, one without type, one
\* without index, and a channel of a device D2 that is never announced
RejectDescriptors ==
    <<DeviceDescriptor(<<"D1">>, "HmIP-BROLL", <<"1.0">>),
      ChannelDescriptor(<<"D1">>, 1, "KEY_TRANSCEIVER", "HmIP-BROLL"),
      ChannelDescriptor(<<"D1">>, 4, "SHUTTER_VIRTUAL_RECEIVER", "HmIP-BROLL"),
      Without(ChannelDescriptor(<<"D1">>, 5, "SWITCH_VIRTUAL_RECEIVER", "HmIP-BROLL"), "ADDRESS"),
      Without(ChannelDescriptor(<<"D1">>, 6, "BLIND_WEEK_PROFILE", "HmIP-BROLL"), "TYPE"),
      Without(ChannelDescriptor(<<"D1">>, 5, "SWITCH_VIRTUAL_RECEIVER", "HmIP-BROLL"), "INDEX"),
      ChannelDescriptor(<<"D2">>, 4, "SWITCH_VIRTUAL_RECEIVER", "HmIP-BSM")>>

\* the batches of at most MaxBatch + 1 of these descriptors
RejectBatches ==
    UNION {[1..n -> {RejectDescriptors[i] : i \in 1..Len(RejectDescriptors)}] : n \in 0..(MaxBatch + 1)}

\* the descriptors of a session: the shutter actuator D1 with a channel of
\* each of four entity kinds, and the switch actuator D2
SessionDescriptors ==
    <<DeviceDescriptor(<<"D1">>, "HmIP-BROLL", <<"1.0">>),
      ChannelDescriptor(<<"D1">>, 0, "MAINTENANCE", "HmIP-BROLL"),
      ChannelDescriptor(<<"D1">>, 1, "KEY_TRANSCEIVER", "HmIP-BROLL"),
      ChannelDescriptor(<<"D1">>, 3, "SHUTTER_TRANSMITTER", "HmIP-BROLL"),
      ChannelDescriptor(<<"D1">>, 4, "SHUTTER_VIRTUAL_RECEIVER", "HmIP-BROLL"),
      DeviceDescriptor(<<"D2">>, "HmIP-BSM", <<"1.0">>),
      ChannelDescriptor(<<"D2">>, 4, "SWITCH_VIRTUAL_RECEIVER", "HmIP-BSM")>>

\* the batches of a session: the descriptors of D1, those of D2; the
\* controller delivers each again whenever the connection is made again
SessionBatches == {SubSeq(SessionDescriptors, 1, 5), SubSeq(SessionDescriptors, 6, 7)}

\* the notifications of a session, as (address, field, value)
SessionNotifications ==
    {<<<<"D1", ":", "0">>, "UNREACH", PyBool(b)>> : b \in BOOLEAN}
    \cup {<<<<"D1", ":", "1">>, "PRESS_SHORT", PyBool(TRUE)>>,
          <<<<"D1", ":", "3">>, "LEVEL", PyFloat(370)>>,
          <<<<"D1", ":", "4">>, "LEVEL", PyFloat(370)>>}
    \cup {<<<<"D2", ":", "4">>, "STATE", PyBool(b)>> : b \in BOOLEAN}

\* the descriptors of a window handle sensor D4 and of a smoke detector D5,
\* each device before its channel
SensorInventory ==
    <<DeviceDescriptor(<<"D4">>, "HmIP-SRH", <<"1.0">>),
      ChannelDescriptor(<<"D4">>, 1, "ROTARY_HANDLE_TRANSCEIVER", "HmIP-SRH"),
      DeviceDescriptor(<<"D5">>, "HmIP-SWSD", <<"1.0">>),
      ChannelDescriptor(<<"D5">>, 1, "SMOKE_DETECTOR", "HmIP-SWSD")>>

\* the values reported for the position of a handle and the alarm status
\* of a smoke detector: the codes up to MaxDecodeValue, one below and one
\* far above them, and a text
DecodeValues ==
    {PyInt(i) : i \in -1..MaxDecodeValue} \cup {PyInt(9), PyStr(<<"1">>)}

\* the notifications of the two sensors: both fields on both channels
DecodeNotifications ==
    {<<a, key, v>> : a \in {<<"D4", ":", "1">>, <<"D5", ":", "1">>},
                     key \in {"STATE", "SMOKE_DETECTOR_ALARM_STATUS"}, v \in DecodeValues}

\* the device table of the connection: the classes of each device object
\* and the type tag of each of its channels
HmDevices ==
    (<<"D1">> :> [classes |-> {"GenericBlind"},
                 CHANNELS |-> (0 :> <<"MAINTENANCE">> @@ 1 :> <<"KEY_TRANSCEIVER">>
                               @@ 3 :> <<"SHUTTER_TRANSMITTER">> @@ 4 :> <<"SHUTTER_VIRTUAL_RECEIVER">>
                               @@ 5 :> <<"SWITCH_VIRTUAL_RECEIVER">>)])
    @@ (<<"D2">> :> [classes |-> {"GenericSwitch"},
                    CHANNELS |-> (0 :> <<"MAINTENANCE">> @@ 4 :> <<"SWITCH_VIRTUAL_RECEIVER">>
                                  @@ 5 :> <<"SHUTTER_VIRTUAL_RECEIVER">>)])

\* the topics of the bus messages received
PacketTopics ==
    {MQTT_PREFIX \o <<"/">> \o a \o <<"/">> \o c \o <<"/">> \o n :
        a \in {<<"D1">>, <<"D2">>, <<"D3">>}, c \in {<<"4">>, <<"5">>, <<"9">>, <<"x">>},
        n \in {<<"action">>, <<"set_level">>}}
    \cup {<<"homeassistant", "/", "D1", "/", "4", "/", "action">>,
          <<"Homematic", "/", "D1", "/", "4">>,
          <<"Homematic", "/", "D1", "/", "4", "/", "action", "/", "x">>}

\* the payloads of the bus messages received; the last does not decode
PacketPayloads ==
    {[valid |-> TRUE, text |-> x] :
        x \in {<<"move_up">>, <<"move_down">>, <<"stop">>, <<"sideways">>, <<"on">>, <<"off">>,
               <<"0", ".", "4", "2">>, <<"1", ".", "5">>, <<"x">>, <<>>,
               <<"0">>, <<"1">>, <<"1", ".", "0", "0", "1">>, <<"-", "0", ".", "1">>,
               <<" ", ".", "5", "0", " ">>, <<"1", "e", "-", "1">>, <<"2", "E", "1">>,
               <<"1", "e">>, <<"nan">>, <<"-", "inf">>}}
    \cup {[valid |-> FALSE, text |-> <<>>]}

(* ------------------------------- state --------------------------------- *)

VARIABLES
    ha_devices,      \* _ha_devices: device address -> identity
    ha_attributes,   \* _ha_attributes: address -> snapshot
    out,             \* the requests the observed invocation handed to the bus client, in order
    calls,           \* the device actions the observed invocation made, in order
    last,            \* the observed handler invocation and its arguments
    pre_devices,     \* _ha_devices when the observed invocation began
    pre_attributes,  \* _ha_attributes when the observed invocation began
    replay,          \* the observed invocation is the redelivery of the call before it
    first_out,       \* when replay: the requests of the first delivery
    todo,            \* the requests the running callback has still to hand to the loop
    queue,           \* the coroutines scheduled on the bus client's loop, in the order scheduled
    log,             \* the requests observed that have not reached the bus client, in the order observed
    reached,         \* the request that reached the bus client last
    overtaken,       \* the publishes of its topic observed before it and still in log then
    handled,         \* the bus message the receive loop processed last, its device actions,
                     \* and whether a callback was running in the other thread then
    shadow_devices,  \* _ha_devices as the callbacks alone produce it
    shadow_attributes, \* _ha_attributes as the callbacks alone produce it
    announced,       \* per address, the discovery documents published for it last
    attributes_sent, \* per address, the topic and document of its last attributes publish
    renewed          \* the addresses a batch has stored a snapshot for since that publish

\* the loop of the bus client and what is observed of it
bus == <<todo, queue, log, reached, overtaken, handled, shadow_devices, shadow_attributes>>

\* what is recorded of the documents published over a session
session == <<announced, attributes_sent, renewed>>

vars == <<ha_devices, ha_attributes, out, calls, last, pre_devices, pre_attributes, replay, first_out,
          todo, queue, log, reached, overtaken, handled, shadow_devices, shadow_attributes,
          announced, attributes_sent, renewed>>

NoRequest == [op |-> "none", topic |-> <<>>, payload |-> Encode(PyStr(<<>>)), retain |-> FALSE, item |-> 0]

NoMessage == [topic |-> <<>>, payload |-> [valid |-> TRUE, text |-> <<>>]]

NoInvocation ==
    [op |-> "none", src |-> <<>>, args |-> <<>>, interface_id |-> <<>>, address |-> <<>>,
     key |-> "", value |-> PyNone, message |-> NoMessage, raised |-> "none", ended |-> ""]

\* __init__: both registries empty; no invocation observed
Init ==
    /\ ha_devices = EmptyDict
    /\ ha_attributes = EmptyDict
    /\ out = <<>>
    /\ calls = <<>>
    /\ last = NoInvocation
    /\ pre_devices = EmptyDict
    /\ pre_attributes = EmptyDict
    /\ replay = FALSE
    /\ first_out = <<>>
    /\ todo = <<>>
    /\ queue = <<>>
    /\ log = <<>>
    /\ reached = NoRequest
    /\ overtaken = <<>>
    /\ handled = [message |-> NoMessage, calls |-> <<>>, during |-> FALSE]
    /\ shadow_devices = EmptyDict
    /\ shadow_attributes = EmptyDict
    /\ announced = EmptyDict
    /\ attributes_sent = EmptyDict
    /\ renewed = {}

\* mutant of SystemAccepted: the session check of line 324 is left out
SystemAcceptedAnySession(src, args) == src = <<"newDevices">> /\ Len(args) >= 2

\* lines 323-324: a newDevices call with its two arguments from this session
SystemAccepted(src, args) ==
    src = <<"newDevices">> /\ Len(args) >= 2 /\ CheckInterfaceId(args[1])

\* the effect of _system_callback(mqtt, src, *args) on the registries, and
\* its requests
SystemResult(devs, attrs, src, args) ==
    IF SystemAccepted(src, args)
    THEN NewDevices(devs, attrs, args[2])
    ELSE [devs |-> devs, attrs |-> attrs, out |-> <<>>]

\* _system_callback(mqtt, src, *args)
SystemCallback(src, args) ==
    LET r == SystemResult(ha_devices, ha_attributes, src, args) IN
    /\ last.op = "none"
    /\ ha_devices' = r.devs
    /\ ha_attributes' = r.attrs
    /\ out' = r.out
    /\ calls' = <<>>
    /\ last' = [NoInvocation EXCEPT !.op = "system", !.src = src, !.args = args,
                                    !.ended = IF SystemAccepted(src, args) THEN "batch" ELSE "ignored"]
    /\ pre_devices' = ha_devices
    /\ pre_attributes' = ha_attributes
    /\ replay' = FALSE
    /\ first_out' = <<>>

\* _system_callback called again with the arguments of the call just
\* observed: the controller redelivers its descriptors (a reconnect)
Redeliver ==
    LET r == SystemResult(ha_devices, ha_attributes, last.src, last.args) IN
    /\ last.op = "system"
    /\ ~replay
    /\ ha_devices' = r.devs
    /\ ha_attributes' = r.attrs
    /\ out' = r.out
    /\ calls' = <<>>
    /\ last' = last
    /\ pre_devices' = ha_devices
    /\ pre_attributes' = ha_attributes
    /\ replay' = TRUE
    /\ first_out' = out

\* _event_callback(mqtt, interface_id, address, value_key, value)
EventCallback(interface_id, address, key, value) ==
    LET r == EventResult(ha_attributes, interface_id, address, key, value) IN
    /\ last.op = "none"
    /\ ha_devices' = ha_devices
    /\ ha_attributes' = r.attrs
    /\ out' = r.out
    /\ calls' = <<>>
    /\ last' = [NoInvocation EXCEPT !.op = "event", !.interface_id = interface_id, !.address = address,
                                    !.key = key, !.value = value, !.raised = r.raised, !.ended = r.ended]
    /\ pre_devices' = ha_devices
    /\ pre_attributes' = ha_attributes
    /\ replay' = FALSE
    /\ first_out' = <<>>

\* mutant of PacketRegistry: the router clears the snapshots
PacketRegistryCleared(devs, attrs, message) == [devs |-> devs, attrs |-> EmptyDict]

\* the registries after _process_packet: no statement of lines 327-390
\* names _ha_devices or _ha_attributes
PacketRegistry(devs, attrs, message) == [devs |-> devs, attrs |-> attrs]

\* _process_packet(message, homematic), awaited by the receive loop of run
ProcessPacket(message) ==
    LET r == ProcessPacketResult(HmDevices, message) IN
    /\ last.op = "none"
    /\ ha_devices' = PacketRegistry(ha_devices, ha_attributes, message).devs
    /\ ha_attributes' = PacketRegistry(ha_devices, ha_attributes, message).attrs
    /\ out' = <<>>
    /\ calls' = r.calls
    /\ last' = [NoInvocation EXCEPT !.op = "packet", !.message = message,
                                    !.raised = r.raised, !.ended = r.ended]
    /\ pre_devices' = ha_devices
    /\ pre_attributes' = ha_attributes
    /\ replay' = FALSE
    /\ first_out' = <<>>

\* the observed invocation is over: the registries stay, the record of the
\* invocation (arguments, requests, calls, registries before) is dropped.
\* An exception that leaves _process_packet leaves the receive loop of run
\* with it (lines 449-451), and no further message is taken.
Return ==
    /\ last.op /= "none"
    /\ ~(last.op = "packet" /\ last.raised /= "none")
    /\ UNCHANGED <<ha_devices, ha_attributes>>
    /\ out' = <<>>
    /\ calls' = <<>>
    /\ last' = NoInvocation
    /\ pre_devices' = EmptyDict
    /\ pre_attributes' = EmptyDict
    /\ replay' = FALSE
    /\ first_out' = <<>>

\* the batch the controller delivers first after the connection starts:
\* every descriptor it holds, the device before its channels
Inventory == [i \in 1..(Len(Descriptors) - 1) |-> Descriptors[IF i = 1 THEN 1 ELSE i + 1]]

\* nothing is recorded of the documents of the step
Unrecorded == UNCHANGED session

\* an invocation taken as one step: the handler runs to its end and the loop
\* runs every coroutine it scheduled, so the loop's queue is empty again
Drained == UNCHANGED bus /\ Unrecorded

NextDiscovery ==
    \/ \E c \in SystemCalls : SystemCallback(c[1], c[2]) /\ Drained
    \/ Redeliver /\ Drained
    \/ Return /\ Drained

NextEvents ==
    \/ /\ ha_attributes = EmptyDict
       /\ SystemCallback(<<"newDevices">>, <<HM_INTERFACE_ID \o <<"-">> \o HM_REMOTE, Inventory>>)
       /\ Drained
    \/ \E i \in InterfaceIds, n \in Notifications : EventCallback(i, n[1], n[2], n[3]) /\ Drained
    \/ Return /\ Drained

NextLevels ==
    \/ /\ ha_attributes = EmptyDict
       /\ SystemCallback(<<"newDevices">>, <<HM_INTERFACE_ID \o <<"-">> \o HM_REMOTE, Inventory>>)
       /\ Drained
    \/ \E n \in LevelNotifications :
           EventCallback(HM_INTERFACE_ID \o <<"-">> \o HM_REMOTE, n[1], n[2], n[3]) /\ Drained
    \/ Return /\ Drained

NextCommands ==
    \/ \E t \in PacketTopics, p \in PacketPayloads : ProcessPacket([topic |-> t, payload |-> p]) /\ Drained
    \/ Return /\ Drained

NextDecode ==
    \/ /\ ha_attributes = EmptyDict
       /\ SystemCallback(<<"newDevices">>, <<HM_INTERFACE_ID \o <<"-">> \o HM_REMOTE, SensorInventory>>)
       /\ Drained
    \/ \E n \in DecodeNotifications :
           EventCallback(HM_INTERFACE_ID \o <<"-">> \o HM_REMOTE, n[1], n[2], n[3]) /\ Drained
    \/ Return /\ Drained

\* the inventory of the two sensors, then their notifications
SpecDecode == Init /\ [][NextDecode]_vars

NextKinds ==
    \/ \E b \in KindBatches :
           SystemCallback(<<"newDevices">>, <<HM_INTERFACE_ID \o <<"-">> \o HM_REMOTE, b>>) /\ Drained
    \/ Return /\ Drained

\* batches of channels of every entity kind
SpecKinds == Init /\ [][NextKinds]_vars

NextRejects ==
    \/ \E b \in RejectBatches :
           SystemCallback(<<"newDevices">>, <<HM_INTERFACE_ID \o <<"-">> \o HM_REMOTE, b>>) /\ Drained
    \/ Return /\ Drained

\* batches that hold rejected descriptors
SpecRejects == Init /\ [][NextRejects]_vars

\* the positions of a batch whose descriptor passes the test of line 209
StoredPositions(devices) ==
    {i \in 1..Len(devices) : Truthy(Get(devices[i], "ADDRESS")) /\ Truthy(Get(devices[i], "TYPE"))}

\* the discovery documents among the requests o made for position i
ConfigPublishes(o, i) ==
    SelectSeq(o, LAMBDA r : r.op = "publish" /\ r.item = i /\ r.topic[Len(r.topic)] = "config")

\* the discovery callback for a batch of this session, and what the bus
\* retains of it: the documents published for each address
SessionBatch(devices) ==
    /\ SystemCallback(<<"newDevices">>, <<HM_INTERFACE_ID \o <<"-">> \o HM_REMOTE, devices>>)
    /\ UNCHANGED bus
    /\ LET told == {i \in StoredPositions(devices) : ConfigPublishes(out', i) /= <<>>}
           addresses == {devices[i]["ADDRESS"].s : i \in told}
           latest(a) == CHOOSE i \in told :
                            /\ devices[i]["ADDRESS"].s = a
                            /\ \A j \in told : devices[j]["ADDRESS"].s = a => j <= i
       IN announced' = [a \in DOMAIN announced \cup addresses |->
                           IF a \in addresses THEN ConfigPublishes(out', latest(a)) ELSE announced[a]]
    /\ renewed' = renewed \cup {devices[i]["ADDRESS"].s : i \in StoredPositions(devices)}
    /\ UNCHANGED attributes_sent

\* the event callback for a notification of this session, and what the bus
\* retains of it: the attributes document published for the address
SessionEvent(address, key, value) ==
    /\ EventCallback(HM_INTERFACE_ID \o <<"-">> \o HM_REMOTE, address, key, value)
    /\ UNCHANGED bus
    /\ UNCHANGED announced
    /\ LET sent == SelectSeq(out', LAMBDA r : r.op = "publish" /\ r.topic[Len(r.topic)] = "attributes") IN
       IF sent = <<>> THEN UNCHANGED <<attributes_sent, renewed>>
       ELSE /\ attributes_sent' = Put(attributes_sent, address,
                                      [topic |-> sent[Len(sent)].topic, doc |-> sent[Len(sent)].payload.doc])
            /\ renewed' = renewed \ {address}

NextSession ==
    \/ \E b \in SessionBatches : SessionBatch(b)
    \/ \E n \in SessionNotifications : SessionEvent(n[1], n[2], n[3])
    \/ Return /\ Drained

\* discovery batches, redelivered at any time, interleaved with
\* notifications
SpecSession == Init /\ [][NextSession]_vars

\* discovery alone
SpecDiscovery == Init /\ [][NextDiscovery]_vars

\* the inventory, then notifications
SpecEvents == Init /\ [][NextEvents]_vars

\* the inventory, then the levels of the shutter channels
SpecLevels == Init /\ [][NextLevels]_vars

\* bus messages
SpecCommands == Init /\ [][NextCommands]_vars

(* ------------------- the two contexts: callbacks and loop --------------- *)

\* the notifications of the two-context machine: levels of the shutter
\* channel D1:3 and the reachability of D1
BusNotifications ==
    {<<<<"D1", ":", "3">>, "LEVEL", PyFloat(m)>> : m \in {0, 1000}}
    \cup {<<<<"D1", ":", "0">>, "UNREACH", PyBool(b)>> : b \in BOOLEAN}

\* the bus messages of the two-context machine
BusMessages ==
    {[topic |-> <<"Homematic", "/", "D1", "/", "4", "/", "action">>,
      payload |-> [valid |-> TRUE, text |-> <<"move_up">>]],
     [topic |-> <<"Homematic", "/", "D1", "/", "4", "/", "set_level">>,
      payload |-> [valid |-> TRUE, text |-> <<"0", ".", "4", "2">>]]}

\* s without its k-th element
RemoveAt(s, k) == SubSeq(s, 1, k - 1) \o SubSeq(s, k + 1, Len(s))

\* the position of the first r in s
FirstIndex(s, r) == CHOOSE k \in 1..Len(s) : s[k] = r /\ \A i \in 1..(k - 1) : s[i] /= r

\* the publishes of the topic of r that stand before r in the log l
EarlierOnTopic(l, r) ==
    SelectSeq(SubSeq(l, 1, FirstIndex(l, r) - 1),
              LAMBDA e : e.op = "publish" /\ r.op = "publish" /\ e.topic = r.topic)

\* mutant of Scheduled: the loop runs the coroutine scheduled last
ScheduledLast(q) == Len(q)

\* the coroutine the loop runs next: the callbacks that
\* run_coroutine_threadsafe hands to the loop run in the order handed over
Scheduled(q) == 1

\* the discovery callback begins, in the connection's thread: it writes the
\* registries; its requests are still to be handed to the loop
BeginSystem(src, args) ==
    LET s == SystemResult(shadow_devices, shadow_attributes, src, args) IN
    /\ todo = <<>>
    /\ SystemCallback(src, args)
    /\ todo' = out'
    /\ log' = log \o out'
    /\ shadow_devices' = s.devs
    /\ shadow_attributes' = s.attrs
    /\ UNCHANGED <<queue, reached, overtaken, handled>>

\* the event callback begins, in the connection's thread
BeginEvent(interface_id, address, key, value) ==
    LET s == EventResult(shadow_attributes, interface_id, address, key, value) IN
    /\ todo = <<>>
    /\ Len(log) <= MaxBacklog
    /\ EventCallback(interface_id, address, key, value)
    /\ todo' = out'
    /\ log' = log \o out'
    /\ shadow_attributes' = s.attrs
    /\ UNCHANGED <<queue, reached, overtaken, handled, shadow_devices>>

\* lines 112 and 127-129: the callback hands its next request to the loop
\* (asyncio.run_coroutine_threadsafe) and goes on without waiting for it
HandOver ==
    /\ todo /= <<>>
    /\ queue' = Append(queue, Head(todo))
    /\ todo' = Tail(todo)
    /\ UNCHANGED <<ha_devices, ha_attributes, out, calls, last, pre_devices, pre_attributes, replay,
                   first_out, log, reached, overtaken, handled, shadow_devices, shadow_attributes>>

\* the callback returns once it has handed over every request
EndCallback ==
    /\ todo = <<>>
    /\ Return
    /\ UNCHANGED bus

\* the loop runs the next scheduled coroutine up to its call of the bus
\* client (mqtt.publish, mqtt.subscribe): the request reaches the client
LoopStep ==
    /\ queue /= <<>>
    /\ reached' = queue[Scheduled(queue)]
    /\ queue' = RemoveAt(queue, Scheduled(queue))
    /\ overtaken' = EarlierOnTopic(log, queue[Scheduled(queue)])
    /\ log' = RemoveAt(log, FirstIndex(log, queue[Scheduled(queue)]))
    /\ UNCHANGED <<ha_devices, ha_attributes, out, calls, last, pre_devices, pre_attributes, replay,
                   first_out, todo, handled, shadow_devices, shadow_attributes>>

\* lines 449-451: the loop takes a bus message and awaits _process_packet,
\* whatever the callback in the other thread is doing
LoopPacket(message) ==
    /\ handled' = [message |-> message, calls |-> ProcessPacketResult(HmDevices, message).calls,
                   during |-> todo /= <<>>]
    /\ handled' /= handled
    /\ ha_devices' = PacketRegistry(ha_devices, ha_attributes, message).devs
    /\ ha_attributes' = PacketRegistry(ha_devices, ha_attributes, message).attrs
    /\ UNCHANGED <<out, calls, last, pre_devices, pre_attributes, replay, first_out,
                   todo, queue, log, reached, overtaken, shadow_devices, shadow_attributes>>

NextBus ==
    \/ /\ ha_attributes = EmptyDict
       /\ BeginSystem(<<"newDevices">>, <<HM_INTERFACE_ID \o <<"-">> \o HM_REMOTE, Inventory>>)
       /\ Unrecorded
    \/ \E n \in BusNotifications :
           BeginEvent(HM_INTERFACE_ID \o <<"-">> \o HM_REMOTE, n[1], n[2], n[3]) /\ Unrecorded
    \/ HandOver /\ Unrecorded
    \/ EndCallback /\ Unrecorded
    \/ LoopStep /\ Unrecorded
    \/ \E m \in BusMessages : LoopPacket(m) /\ Unrecorded

\* the callbacks of the connection's thread interleaved with the loop of
\* the bus client
SpecBus == Init /\ [][NextBus]_vars

Next == NextDiscovery \/ NextKinds \/ NextRejects \/ NextSession \/ NextEvents \/ NextLevels \/ NextDecode \/ NextCommands \/ NextBus

Spec == Init /\ [][Next]_vars

(* ------------------------- the observed invocation --------------------- *)

\* the session identifier of the bridge, written out
BridgeSession == <<"mqttbridge", "-", "default">>

\* the observed invocation is a newDevices batch from the bridge session
BatchObserved ==
    last.op = "system" /\ last.src = <<"newDevices">> /\ Len(last.args) >= 2
    /\ last.args[1] = BridgeSession

\* the descriptors of the observed batch
ObservedBatch == last.args[2]

\* the registries as the loop of the observed batch finds them when it
\* reaches the descriptor at position i
RegistryBefore(i) ==
    NewDevicesFrom([devs |-> pre_devices, attrs |-> pre_attributes, out |-> <<>>],
                   SubSeq(ObservedBatch, 1, i - 1), 1)

\* the requests the observed invocation made for the descriptor at position i
RequestsFor(i) == SelectSeq(out, LAMBDA r : r.item = i)

\* the publishes among the requests o, as a set of (topic, payload, retain)
Published(o) ==
    {[topic |-> o[i].topic, payload |-> o[i].payload, retain |-> o[i].retain] :
        i \in {j \in 1..Len(o) : o[j].op = "publish"}}

\* the descriptor names a parent device
NamesParent(dev) == "PARENT" \in DOMAIN dev /\ dev["PARENT"].k = "str" /\ dev["PARENT"].s /= <<>>

\* the descriptor is the one of a device: an address, a type, no parent
IsDeviceDescriptor(dev) ==
    /\ "ADDRESS" \in DOMAIN dev /\ dev["ADDRESS"].s /= <<>>
    /\ "TYPE" \in DOMAIN dev /\ dev["TYPE"].s /= <<>>
    /\ ~NamesParent(dev)

(* --------------------------------- C1 ---------------------------------- *)

\* C1: in every reachable state the registry holds no Attribute Snapshot for
\* a channel address (device:index) whose device has no Discovery Identity.
C1_NoSnapshotWithoutIdentity ==
    \A a \in DOMAIN ha_attributes :
        IndexOf(a, ":", 1) > 0 => SubSeq(a, 1, IndexOf(a, ":", 1) - 1) \in DOMAIN ha_devices

(* --------------------------------- C2 ---------------------------------- *)

\* C2: a descriptor of an accepted batch that names a parent whose identity
\* is absent when the loop reaches it causes no publish and no subscription,
\* whatever its channel type.
C2_UnknownParentNoRequests ==
    BatchObserved =>
        \A i \in 1..Len(ObservedBatch) :
            (NamesParent(ObservedBatch[i])
             /\ ObservedBatch[i]["PARENT"].s \notin DOMAIN RegistryBefore(i).devs)
            => RequestsFor(i) = <<>>

\* C2 witness: a batch with a cover channel whose parent is unknown when it
\* is reached, while another descriptor of the same batch does publish.
C2_Witness ==
    /\ BatchObserved
    /\ out /= <<>>
    /\ \E i \in 1..Len(ObservedBatch) :
        /\ NamesParent(ObservedBatch[i])
        /\ ObservedBatch[i]["PARENT"].s \notin DOMAIN RegistryBefore(i).devs
        /\ "TYPE" \in DOMAIN ObservedBatch[i]
        /\ ObservedBatch[i]["TYPE"].s \in SWITCH_TYPES \cup COVER_TYPES
        /\ "INDEX" \in DOMAIN ObservedBatch[i]

(* --------------------------------- C3 ---------------------------------- *)

\* no channel descriptor of the batch comes before a descriptor of its
\* parent device in the same batch
ParentsFirst(batch) ==
    \A i \in 1..Len(batch) : \A j \in 1..Len(batch) :
        (NamesParent(batch[i]) /\ IsDeviceDescriptor(batch[j])
         /\ batch[j]["ADDRESS"].s = batch[i]["PARENT"].s)
        => ~(i < j /\ \A k \in 1..(i - 1) :
                ~(IsDeviceDescriptor(batch[k]) /\ batch[k]["ADDRESS"].s = batch[i]["PARENT"].s))

C7_IdentityWrittenOnce ==
    last.op = "system" =>
        \A a \in DOMAIN pre_devices : a \in DOMAIN ha_devices /\ ha_devices[a] = pre_devices[a]

(* --------------------------------- C8 ---------------------------------- *)

\* C8: a batch whose sender interface identifier is not the bridge session
\* changes neither registry and causes no publish and no subscription.
C8_ForeignBatchIgnored ==
    (last.op = "system" /\ Len(last.args) >= 1 /\ last.args[1] /= BridgeSession) =>
        /\ ha_devices = pre_devices
        /\ ha_attributes = pre_attributes
        /\ out = <<>>

\* C8 witness: a newDevices batch of another session that announces a device
\* and one of its channels.
C8_Witness ==
    /\ last.op = "system" /\ last.src = <<"newDevices">>
    /\ Len(last.args) = 2 /\ last.args[1] /= BridgeSession
    /\ Len(last.args[2]) = MaxBatch
    /\ IsDeviceDescriptor(last.args[2][1])
    /\ NamesParent(last.args[2][MaxBatch])
    /\ ha_devices = pre_devices /\ out = <<>>

(* ------------------------------ C4 .. C6, C9 --------------------------- *)

\* the observed invocation is a notification that passed both checks of
\* lines 151-158: the bridge session, an address with a stored snapshot
NotificationAccepted ==
    last.op = "event" /\ last.interface_id = BridgeSession /\ last.address \in DOMAIN pre_attributes

\* the last token of a topic
Suffix(topic) == topic[Len(topic)]

\* the publishes to an attributes topic among the requests o
AttributePublishes(o) == SelectSeq(o, LAMBDA r : r.op = "publish" /\ Suffix(r.topic) = "attributes")

\* the semantic-value publishes among the requests o: every other publish
SemanticPublishes(o) == SelectSeq(o, LAMBDA r : r.op = "publish" /\ Suffix(r.topic) /= "attributes")

\* the value the notification carries equals the one stored for its field
ValueStored ==
    LET old == pre_attributes[last.address] IN
    Lower(last.key) \in DOMAIN old /\ PyEq(old[Lower(last.key)], last.value)

\* what C4 says of an accepted notification: nothing happens to the snapshot
\* and its topic when the value is the stored one; otherwise the field is
\* written and the whole updated snapshot is published once
WriteAndPublishOnChange ==
    IF ValueStored
    THEN AttributePublishes(out) = <<>> /\ ha_attributes = pre_attributes
    ELSE /\ ha_attributes =
                Put(pre_attributes, last.address,
                    Put(pre_attributes[last.address], Lower(last.key), last.value))
         /\ Len(AttributePublishes(out)) = 1
         /\ AttributePublishes(out)[1].payload.fmt = "json"
         /\ AttributePublishes(out)[1].payload.doc = ha_attributes[last.address]

\* C4: every accepted notification with the stored value causes no
\* attributes publish and no change of the snapshot; with another value the
\* field is written and exactly one attributes publish carries the snapshot.
C4_WriteAndPublishOnChange == NotificationAccepted => WriteAndPublishOnChange

\* C4 on channel addresses (device:index) only, where it does hold.
C4_ChannelAddressesOnly ==
    (NotificationAccepted /\ IndexOf(last.address, ":", 1) > 0) => WriteAndPublishOnChange

\* the observed notification is UNREACH for a maintenance channel
UnreachOnMaintenance ==
    /\ NotificationAccepted
    /\ IndexOf(last.address, ":", 1) > 0
    /\ pre_attributes[last.address]["type"].s = <<"MAINTENANCE">>
    /\ last.key = "UNREACH"

\* C5 as claimed: no notification causes more than one semantic-value
\* publish, UNREACH on a maintenance channel included.
C5_AtMostOneSemanticPublish == last.op = "event" => Len(SemanticPublishes(out)) <= 1

\* C5 as amended: a notification causes at most one semantic-value publish,
\* except UNREACH on a maintenance channel, which causes two: the
\* availability of the device, then the maintenance state of the channel.
C5_AtMostOneExceptUnreach ==
    last.op = "event" =>
        IF UnreachOnMaintenance
        THEN /\ Len(SemanticPublishes(out)) = 2
             /\ Suffix(SemanticPublishes(out)[1].topic) = "availability"
             /\ Suffix(SemanticPublishes(out)[2].topic) = "state"
        ELSE Len(SemanticPublishes(out)) <= 1

\* C5 witness: a flag other than UNREACH on a maintenance channel, with its
\* one state publish after the attributes publish.
C5_Witness ==
    /\ NotificationAccepted
    /\ pre_attributes[last.address]["type"].s = <<"MAINTENANCE">>
    /\ last.key = "LOW_BAT"
    /\ Len(out) = 2
    /\ Len(SemanticPublishes(out)) = 1

\* the observed notification is a maintenance flag for a maintenance channel
FlagOnMaintenance ==
    /\ NotificationAccepted
    /\ IndexOf(last.address, ":", 1) > 0
    /\ pre_attributes[last.address]["type"].s = <<"MAINTENANCE">>
    /\ Lower(last.key) \in MAINTENANCE_FLAGS

\* the publishes to a state topic among the requests o
StatePublishes(o) == SelectSeq(o, LAMBDA r : r.op = "publish" /\ Suffix(r.topic) = "state")

\* some maintenance flag of the snapshot is truthy
SomeFlagSet(attrs) == \E flag \in MAINTENANCE_FLAGS \cap DOMAIN attrs : Truthy(attrs[flag])

\* C6: a maintenance-flag notification for a maintenance channel publishes
\* the state true exactly when some maintenance flag present in the snapshot
\* is truthy (booleans, and integers from 0 to MaxFlagValue).
C6_MaintenanceStateIsOr ==
    FlagOnMaintenance =>
        /\ Len(StatePublishes(out)) = 1
        /\ StatePublishes(out)[1].payload.text =
              IF SomeFlagSet(ha_attributes[last.address]) THEN <<"ON">> ELSE <<"OFF">>

\* C6 witness: the notified flag is false, another boolean flag is false, and
\* the state is true because of an integer flag.
C6_Witness ==
    /\ FlagOnMaintenance
    /\ last.key = "LOW_BAT" /\ last.value = PyBool(FALSE)
    /\ "unreach" \in DOMAIN ha_attributes[last.address]
    /\ ha_attributes[last.address]["unreach"] = PyBool(FALSE)
    /\ "error_code" \in DOMAIN ha_attributes[last.address]
    /\ ha_attributes[last.address]["error_code"] = PyInt(MaxFlagValue)
    /\ StatePublishes(out)[1].payload.text = <<"ON">>

\* C9: a notification from another session, or for an address without a
\* stored snapshot, changes neither registry and causes no publish.
C9_RejectedNotificationNoEffect ==
    (last.op = "event"
     /\ (last.interface_id /= BridgeSession \/ last.address \notin DOMAIN pre_attributes)) =>
        /\ ha_devices = pre_devices
        /\ ha_attributes = pre_attributes
        /\ out = <<>>

\* C9 witness: a notification of another session for a known maintenance
\* channel, with a value that is not the stored one.
C9_Witness ==
    /\ last.op = "event"
    /\ last.interface_id /= BridgeSession
    /\ last.address \in DOMAIN pre_attributes
    /\ last.key = "UNREACH"
    /\ "unreach" \notin DOMAIN pre_attributes[last.address]
    /\ ha_attributes = pre_attributes /\ out = <<>>

(* --------------------------------- C10 --------------------------------- *)

\* the observed bus message is on the action topic of the cover-type channel
\* c of the cover-capable device a
ActionOnCover(a, c) ==
    /\ last.op = "packet"
    /\ "GenericBlind" \in HmDevices[a].classes
    /\ HmDevices[a].CHANNELS[c] = <<"SHUTTER_VIRTUAL_RECEIVER">>
    /\ last.message.topic = <<"Homematic", "/">> \o a \o <<"/">> \o IntToStr(c) \o <<"/", "action">>

\* C10: on the action topic of a cover-type channel of a cover-capable
\* device, move_up, move_down and stop invoke the action of that name on that
\* channel once and cause no publish; any other payload invokes nothing.
C10_CoverAction ==
    \A a \in DOMAIN HmDevices : \A c \in DOMAIN HmDevices[a].CHANNELS :
        ActionOnCover(a, c) =>
            IF last.message.payload.valid
               /\ last.message.payload.text \in {<<"move_up">>, <<"move_down">>, <<"stop">>}
            THEN calls = <<Call(last.message.payload.text, a, c, NoLevel)>> /\ out = <<>>
            ELSE calls = <<>>

\* C10 witness: move_up on Homematic/D1/4/action has called move_up(4).
C10_Witness ==
    /\ ActionOnCover(<<"D1">>, 4)
    /\ last.message.payload.text = <<"move_up">>
    /\ calls = <<Call(<<"move_up">>, <<"D1">>, 4, NoLevel)>>

(* ------------------------------ C11 .. C13 ----------------------------- *)

\* the observed bus message is on the topic Homematic/a/c/name
OnTopic(a, c, name) ==
    /\ last.op = "packet"
    /\ last.message.topic = <<"Homematic", "/">> \o a \o <<"/">> \o IntToStr(c) \o <<"/", name>>

\* the channel c of the device a is a cover-type channel of a cover-capable
\* device
CoverChannel(a, c) ==
    "GenericBlind" \in HmDevices[a].classes /\ HmDevices[a].CHANNELS[c] \in COVER_TYPES

\* the channel c of the device a is a switch-type channel of a
\* switch-capable device
SwitchChannel(a, c) ==
    "GenericSwitch" \in HmDevices[a].classes /\ HmDevices[a].CHANNELS[c] \in SWITCH_TYPES

\* the payload parses as a number between 0 and 1 inclusive
LevelPayload(payload) ==
    /\ payload.valid
    /\ ParseFloat(payload.text).kind = "number"
    /\ 0 <= ParseFloat(payload.text).m
    /\ ParseFloat(payload.text).m <= Pow10(ParseFloat(payload.text).d)

\* C11: on the set_level topic of a cover-type channel of a cover-capable
\* device, set_level is called once with the parsed fraction and that
\* channel exactly when the payload parses as a number in [0,1]; any other
\* payload calls nothing.
C11_SetLevel ==
    \A a \in DOMAIN HmDevices : \A c \in DOMAIN HmDevices[a].CHANNELS :
        (OnTopic(a, c, "set_level") /\ CoverChannel(a, c)) =>
            IF LevelPayload(last.message.payload)
            THEN calls = <<Call(<<"set_level">>, a, c,
                                [m |-> ParseFloat(last.message.payload.text).m,
                                 d |-> ParseFloat(last.message.payload.text).d])>>
            ELSE calls = <<>>

\* C11 witness: "0.42" on Homematic/D1/4/set_level has called
\* set_level(0.42, 4).
C11_Witness ==
    /\ OnTopic(<<"D1">>, 4, "set_level")
    /\ last.message.payload.text = <<"0", ".", "4", "2">>
    /\ calls = <<Call(<<"set_level">>, <<"D1">>, 4, [m |-> 42, d |-> 2])>>

\* the observed bus message is one of the three combinations that invoke a
\* device action
ListedCombination ==
    \E a \in DOMAIN HmDevices : \E c \in DOMAIN HmDevices[a].CHANNELS :
        \/ CoverChannel(a, c) /\ (OnTopic(a, c, "action") \/ OnTopic(a, c, "set_level"))
        \/ SwitchChannel(a, c) /\ OnTopic(a, c, "action")
                               /\ last.message.payload.text \in {<<"on">>, <<"off">>}

\* C12: a device action is invoked only for a cover channel's action or
\* set_level message or for a switch channel's action message with payload
\* on or off (then that action, once, on that channel); every other
\* combination invokes nothing.
C12_OnlyListedCombinations ==
    last.op = "packet" =>
        /\ calls /= <<>> => ListedCombination
        /\ \A a \in DOMAIN HmDevices : \A c \in DOMAIN HmDevices[a].CHANNELS :
               (SwitchChannel(a, c) /\ OnTopic(a, c, "action")
                /\ last.message.payload.valid
                /\ last.message.payload.text \in {<<"on">>, <<"off">>})
               => calls = <<Call(last.message.payload.text, a, c, NoLevel)>>

\* C12 witness: "on" sent to the action topic of the cover channel D1:4 has
\* invoked nothing.
C12_Witness ==
    /\ OnTopic(<<"D1">>, 4, "action")
    /\ CoverChannel(<<"D1">>, 4)
    /\ last.message.payload.text = <<"on">>
    /\ calls = <<>>

\* the message fails one of the checks of the router before dispatch
Malformed(message) ==
    LET parts == Split(message.topic, "/") IN
    \/ Len(parts) /= 4
    \/ parts[1] /= <<"Homematic">>
    \/ ~ParseInt(parts[3]).ok
    \/ ~message.payload.valid
    \/ parts[2] \notin DOMAIN HmDevices
    \/ ParseInt(parts[3]).n \notin DOMAIN HmDevices[parts[2]].CHANNELS

\* C13: a bus message with a topic of other than four segments, a foreign
\* prefix, a non-integer channel, an undecodable payload or an unknown device
\* or channel invokes no device action and requests nothing, no exception
\* leaves the router, and the receive loop can take the next message.
C13_MalformedDropped ==
    (last.op = "packet" /\ Malformed(last.message)) =>
        /\ calls = <<>>
        /\ out = <<>>
        /\ last.raised = "none"
        /\ ENABLED Return

\* C13 witness: a message whose channel segment is no integer was dropped.
C13_Witness ==
    /\ last.op = "packet"
    /\ Split(last.message.topic, "/")[3] = <<"x">>
    /\ last.ended = "channel"
    /\ calls = <<>>

(* ------------------------------ C14, C15 ------------------------------- *)

\* the request r is the press publish of the observed notification: a
\* PRESS_SHORT or PRESS_LONG of a key-transceiver channel, on the topic of
\* that name
PressPublish(r) ==
    /\ last.op = "event"
    /\ last.key \in {"PRESS_SHORT", "PRESS_LONG"}
    /\ last.address \in DOMAIN ha_attributes
    /\ ha_attributes[last.address]["type"] = PyStr(<<"KEY_TRANSCEIVER">>)
    /\ Suffix(r.topic) = last.key

\* C14: every publish request of a notification and of a discovery batch
\* (discovery document, attribute snapshot, availability, state) is
\* retained, except the PRESS_SHORT and PRESS_LONG publish of a
\* key-transceiver channel, which is not.
C14_RetainedExceptPress ==
    \A i \in 1..Len(out) :
        out[i].op = "publish" => (out[i].retain <=> ~PressPublish(out[i]))

\* C14 witness: PRESS_SHORT on the key-transceiver channel D1:1 has caused a
\* retained attributes publish and an unretained press publish.
C14_Witness ==
    /\ last.op = "event"
    /\ last.address = <<"D1", ":", "1">>
    /\ last.key = "PRESS_SHORT"
    /\ Len(out) = 2
    /\ Suffix(out[1].topic) = "attributes" /\ out[1].retain
    /\ Suffix(out[2].topic) = "PRESS_SHORT" /\ ~out[2].retain

\* the observed notification is an accepted LEVEL of thousandths m on a
\* shutter-transmitter or shutter-virtual-receiver channel
LevelOnShutter(m) ==
    /\ last.op = "event"
    /\ last.ended = "dispatch"
    /\ last.key = "LEVEL"
    /\ last.value = PyFloat(m)
    /\ ha_attributes[last.address]["type"].s \in {<<"SHUTTER_TRANSMITTER">>, <<"SHUTTER_VIRTUAL_RECEIVER">>}

\* the integer p is v * 100 rounded: no integer is nearer to it
Rounded(p, m) == p \in 0..100 /\ 10 * p - m \in -5..5

\* C15: a LEVEL notification of value v in [0,1] on a shutter channel
\* publishes to the channel's state topic one value, the integer nearest to
\* v * 100 (0.37 gives 37, 1.0 gives 100), for every v of the grid.
C15_LevelRounded ==
    \A m \in LevelGrid :
        LevelOnShutter(m) =>
            /\ Len(StatePublishes(out)) = 1
            /\ StatePublishes(out)[1].topic
                   = <<"Homematic", "/">> \o Split1(last.address, ":")[1] \o <<"/">>
                     \o Split1(last.address, ":")[2] \o <<"/", "state">>
            /\ \E p \in 0..100 :
                   /\ Rounded(p, m)
                   /\ StatePublishes(out)[1].payload = Encode(PyInt(p))
            /\ m = 370 => StatePublishes(out)[1].payload.text = <<"3", "7">>
            /\ m = 1000 => StatePublishes(out)[1].payload.text = <<"1", "0", "0">>

\* C15 witness: LEVEL 0.37 on the shutter-transmitter channel D1:3 has
\* published 37 to Homematic/D1/3/state.
C15_Witness ==
    /\ LevelOnShutter(370)
    /\ last.address = <<"D1", ":", "3">>
    /\ Len(StatePublishes(out)) = 1
    /\ StatePublishes(out)[1].topic = <<"Homematic", "/", "D1", "/", "3", "/", "state">>
    /\ StatePublishes(out)[1].payload.text = <<"3", "7">>

(* ------------------------------ C16, C17 ------------------------------- *)

AcceptedOn(chan_type, key) ==
    /\ last.op = "event"
    /\ last.ended = "dispatch"
    /\ last.key = key
    /\ ha_attributes[last.address]["type"] = PyStr(<<chan_type>>)

\* the state of a handle position
RotaryState(value) ==
    IF value = PyInt(0) THEN "closed"
    ELSE IF value = PyInt(1) THEN "tilted"
    ELSE IF value = PyInt(2) THEN "open"
    ELSE "unknown"

\* the state of a smoke alarm status
SmokeState(value) ==
    IF value = PyInt(0) THEN "off"
    ELSE IF value = PyInt(1) THEN "primary"
    ELSE IF value = PyInt(2) THEN "intrusion"
    ELSE IF value = PyInt(3) THEN "secondary"
    ELSE "unknown"

\* C18: a STATE notification on a rotary-handle-transceiver channel
\* publishes closed, tilted, open for 0, 1, 2 and "unknown" for every other
\* value; a SMOKE_DETECTOR_ALARM_STATUS notification on a smoke-detector
\* channel publishes off, primary, intrusion, secondary for 0, 1, 2, 3 and
\* "unknown" for every other value.
C18_DecodeTables ==
    /\ AcceptedOn("ROTARY_HANDLE_TRANSCEIVER", "STATE") =>
           /\ Len(StatePublishes(out)) = 1
           /\ StatePublishes(out)[1].payload.text = <<RotaryState(last.value)>>
    /\ AcceptedOn("SMOKE_DETECTOR", "SMOKE_DETECTOR_ALARM_STATUS") =>
           /\ Len(StatePublishes(out)) = 1
           /\ StatePublishes(out)[1].payload.text = <<SmokeState(last.value)>>

\* C18 witness: STATE 9 on the handle channel D4:1 has published "unknown"
\* to Homematic/D4/1/state.
C18_Witness ==
    /\ AcceptedOn("ROTARY_HANDLE_TRANSCEIVER", "STATE")
    /\ last.value = PyInt(9)
    /\ Len(StatePublishes(out)) = 1
    /\ StatePublishes(out)[1].topic = <<"Homematic", "/", "D4", "/", "1", "/", "state">>
    /\ StatePublishes(out)[1].payload.text = <<"unknown">>

(* ------------------------------ C19, C20 ------------------------------- *)

\* the discovery documents among the requests o
Documents(o) == SelectSeq(o, LAMBDA r : r.op = "publish" /\ r.topic[1] = "homeassistant")

\* the component a discovery document is published for
ComponentOf(r) == r.topic[3]

\* the entity kind of a channel-type tag, as the component of its documents
KindOf(devtype) ==
    IF devtype \in BINARY_SENSOR_TYPES THEN "binary_sensor"
    ELSE IF devtype \in SENSOR_TYPES THEN "sensor"
    ELSE IF devtype \in DEVICE_TRIGGER_TYPES THEN "device_automation"
    ELSE IF devtype \in COVER_TYPES THEN "cover"
    ELSE IF devtype \in SWITCH_TYPES THEN "switch"
    ELSE "unhandled"

\* the number of documents of an entity kind
DocumentsOf(kind) ==
    IF kind = "unhandled" THEN 0 ELSE IF kind = "device_automation" THEN 2 ELSE 1

\* the requests for the descriptor at position i are n documents of the
\* kind, and of no other
YieldsDocuments(i, kind, n) ==
    /\ Len(Documents(RequestsFor(i))) = n
    /\ \A j \in 1..Len(Documents(RequestsFor(i))) : ComponentOf(Documents(RequestsFor(i))[j]) = kind

\* the descriptor has an address, a type and an index
WellFormed(dev) ==
    /\ "ADDRESS" \in DOMAIN dev /\ dev["ADDRESS"].s /= <<>>
    /\ "TYPE" \in DOMAIN dev /\ dev["TYPE"].s /= <<>>
    /\ "INDEX" \in DOMAIN dev

\* C19 as stated: the documents of every descriptor of an accepted batch are
\* fixed by its type tag alone: none for a parentless descriptor or an
\* unhandled type, two for a device-trigger type, one for a binary-sensor,
\* sensor, cover or switch type.
C19_KindByTypeAlone ==
    BatchObserved =>
        \A i \in 1..Len(ObservedBatch) :
            IF ~NamesParent(ObservedBatch[i]) THEN Documents(RequestsFor(i)) = <<>>
            ELSE YieldsDocuments(i, KindOf(ObservedBatch[i]["TYPE"].s),
                                 DocumentsOf(KindOf(ObservedBatch[i]["TYPE"].s)))

\* C19 amended: a descriptor with an index whose parent has an identity when
\* the loop reaches it yields the documents of the kind of its type tag
\* (none if unhandled, two for a device trigger, one otherwise) and of no
\* other kind; a parentless descriptor and a descriptor whose parent has no
\* identity then yield none.
C19_KindByTypeOfKnownParent ==
    BatchObserved =>
        \A i \in 1..Len(ObservedBatch) :
            IF /\ NamesParent(ObservedBatch[i])
               /\ WellFormed(ObservedBatch[i])
               /\ ObservedBatch[i]["PARENT"].s \in DOMAIN RegistryBefore(i).devs
            THEN YieldsDocuments(i, KindOf(ObservedBatch[i]["TYPE"].s),
                                 DocumentsOf(KindOf(ObservedBatch[i]["TYPE"].s)))
            ELSE Documents(RequestsFor(i)) = <<>>

\* C19 witness: a batch of the device D1 and its key-transceiver channel has
\* published the two device-trigger documents of the channel and none for
\* the device.
C19_Witness ==
    /\ BatchObserved
    /\ Len(ObservedBatch) = 2
    /\ ~NamesParent(ObservedBatch[1])
    /\ ObservedBatch[2]["TYPE"].s = <<"KEY_TRANSCEIVER">>
    /\ RequestsFor(1) = <<>>
    /\ YieldsDocuments(2, "device_automation", 2)

\* the topics the requests o ask a subscription for
Subscribed(o) == {o[i].topic : i \in {j \in 1..Len(o) : o[j].op = "subscribe"}}

\* the command topic and, if any, the set-position topic a cover or switch
\* document names
CommandTopics(r) ==
    {r.payload.doc[f].s : f \in {"command_topic", "set_position_topic"} \cap DOMAIN r.payload.doc}

\* the request at position i is a cover or switch document
CommandDocument(o, i) ==
    /\ o[i].op = "publish"
    /\ o[i].topic[1] = "homeassistant"
    /\ ComponentOf(o[i]) \in {"cover", "switch"}

\* C20: the topics a batch requests subscriptions for are exactly the
\* command and set-position topics named in the cover and switch documents
\* it publishes, and each of them is requested before its document is
\* published.
C20_SubscribedBeforePublished ==
    BatchObserved =>
        /\ Subscribed(out) = UNION {CommandTopics(out[i]) : i \in {j \in 1..Len(out) : CommandDocument(out, j)}}
        /\ \A i \in 1..Len(out) :
               CommandDocument(out, i) =>
                   \A topic \in CommandTopics(out[i]) :
                       \E j \in 1..(i - 1) : out[j].op = "subscribe" /\ out[j].topic = topic

\* C20 witness: a batch has published a cover document after requesting
\* the subscriptions for its action and set_level topics.
C20_Witness ==
    /\ BatchObserved
    /\ Len(out) = 3
    /\ out[1] = Subscribe(<<"Homematic", "/", "D1", "/", "4", "/", "action">>, out[1].item)
    /\ out[2] = Subscribe(<<"Homematic", "/", "D1", "/", "4", "/", "set_level">>, out[2].item)
    /\ CommandDocument(out, 3)
    /\ ComponentOf(out[3]) = "cover"

(* --------------------------------- C22 --------------------------------- *)

\* the position i of the observed batch holds a device-trigger channel
\* whose parent has an identity when the loop reaches it
TriggerAt(i) ==
    /\ NamesParent(ObservedBatch[i])
    /\ WellFormed(ObservedBatch[i])
    /\ ObservedBatch[i]["TYPE"].s \in DEVICE_TRIGGER_TYPES
    /\ ObservedBatch[i]["PARENT"].s \in DOMAIN RegistryBefore(i).devs

\* the document r was published under the object id ending in -suffix and
\* carries the topic of the press event and the type of that press
PressDocument(r, suffix, press, type) ==
    /\ r.topic[Len(r.topic) - 3] = "-"
    /\ r.topic[Len(r.topic) - 2] = suffix
    /\ Suffix(r.payload.doc["topic"].s) = press
    /\ r.payload.doc["type"] = PyStr(<<type>>)
    /\ "state_topic" \notin DOMAIN r.payload.doc

\* C22: a device-trigger channel publishes two distinct documents: the one
\* under -short carries the PRESS_SHORT topic and the short-press type, the
\* one under -long the PRESS_LONG topic and the long-press type (building
\* the second leaves the first as it was handed over), and neither carries a
\* state topic.
C22_TriggerDocuments ==
    BatchObserved =>
        \A i \in 1..Len(ObservedBatch) :
            TriggerAt(i) =>
                /\ Len(RequestsFor(i)) = 2
                /\ PressDocument(RequestsFor(i)[1], "short", "PRESS_SHORT", "button_short_press")
                /\ PressDocument(RequestsFor(i)[2], "long", "PRESS_LONG", "button_long_press")
                /\ RequestsFor(i)[1].payload /= RequestsFor(i)[2].payload
                /\ RequestsFor(i)[1].topic /= RequestsFor(i)[2].topic

\* C22 witness: the batch of D1 and its key-transceiver channel D1:1 has
\* published the short-press document on the PRESS_SHORT topic of D1:1.
C22_Witness ==
    /\ BatchObserved
    /\ Len(ObservedBatch) = 2
    /\ TriggerAt(2)
    /\ Len(out) = 2
    /\ out[1].payload.doc["topic"] = PyStr(<<"Homematic", "/", "D1", "/", "1", "/", "PRESS_SHORT">>)
    /\ out[2].payload.doc["topic"] = PyStr(<<"Homematic", "/", "D1", "/", "1", "/", "PRESS_LONG">>)

(* --------------------------------- C21 --------------------------------- *)

\* the loop rejects the descriptor at position i of the observed batch: it
\* has no address or no type, or it names a parent that has no identity
\* when the loop reaches it, or it names a parent and has no index
Rejected(i) ==
    \/ ~Truthy(Get(ObservedBatch[i], "ADDRESS"))
    \/ ~Truthy(Get(ObservedBatch[i], "TYPE"))
    \/ /\ NamesParent(ObservedBatch[i])
       /\ \/ ObservedBatch[i]["PARENT"].s \notin DOMAIN RegistryBefore(i).devs
          \/ "INDEX" \notin DOMAIN ObservedBatch[i]

\* the requests o without the positions of their descriptors
Bare(o) ==
    [k \in 1..Len(o) |-> [op |-> o[k].op, topic |-> o[k].topic, payload |-> o[k].payload, retain |-> o[k].retain]]

\* the requests the observed batch would cause from position i on if the
\* descriptor at position i were not in it
RequestsWithout(i) ==
    SelectSeq(NewDevices(pre_devices, pre_attributes, RemoveAt(ObservedBatch, i)).out,
              LAMBDA r : r.item >= i)

\* C21: a rejected descriptor does not end its batch: every later
\* descriptor with an address and a type is registered, and the requests
\* of the later descriptors are the ones the batch causes without the
\* rejected descriptor.
C21_RejectedDoesNotAbort ==
    BatchObserved =>
        \A i \in 1..Len(ObservedBatch) :
            Rejected(i) =>
                /\ Bare(SelectSeq(out, LAMBDA r : r.item > i)) = Bare(RequestsWithout(i))
                /\ \A j \in (i + 1)..Len(ObservedBatch) :
                       (Truthy(Get(ObservedBatch[j], "ADDRESS")) /\ Truthy(Get(ObservedBatch[j], "TYPE")))
                       => ObservedBatch[j]["ADDRESS"].s \in DOMAIN ha_attributes

\* C21 witness: a batch of a descriptor without address followed by the
\* cover channel D1:4 of the known device D1 has issued the three requests
\* of the cover channel.
C21_Witness ==
    /\ BatchObserved
    /\ Len(ObservedBatch) = 2
    /\ "ADDRESS" \notin DOMAIN ObservedBatch[1]
    /\ Rejected(1)
    /\ Len(out) = 3
    /\ \A k \in 1..3 : out[k].item = 2
    /\ out[3].op = "publish" /\ ComponentOf(out[3]) = "cover"

(* --------------------------------- C24 --------------------------------- *)

\* C24: every notification that passes the checks of lines 151-158 has an
\* address that splits at ":" into a parent address and a channel index,
\* and its translation ends without an exception.
C24_AcceptedRunsToCompletion ==
    NotificationAccepted =>
        /\ IndexOf(last.address, ":", 1) > 0
        /\ last.raised = "none"
        /\ last.ended = "dispatch"

(* --------------------------------- C23 --------------------------------- *)

\* the attributes document published last for address a is the snapshot
\* stored for a
SentIsStored(a) ==
    /\ a \in DOMAIN ha_attributes
    /\ attributes_sent[a].doc = ha_attributes[a]

\* C23 as stated: for every channel with a published attributes document,
\* the document published last equals the stored snapshot.
C23_SentIsStored == \A a \in DOMAIN attributes_sent : SentIsStored(a)

\* C23 amended: the document published last equals the stored snapshot for
\* every channel that no batch has stored a snapshot for since that
\* publish.
C23_SentIsStoredUnlessRenewed ==
    \A a \in DOMAIN attributes_sent : a \notin renewed => SentIsStored(a)

\* C23 witness: a notification has just published the snapshot of a channel
\* that a batch had stored again after an earlier publish, while another
\* channel, stored again since its last publish, holds a snapshot that
\* differs from its last document.
C23_Witness ==
    /\ NotificationAccepted
    /\ AttributePublishes(out) /= <<>>
    /\ last.address \in DOMAIN attributes_sent
    /\ last.address \notin renewed
    /\ SentIsStored(last.address)
    /\ \E b \in renewed \cap DOMAIN attributes_sent : ~SentIsStored(b)

(* --------------------------------- C25 --------------------------------- *)

\* the documents announced for address a, if any
AnnouncedFor(a) == IF a \in DOMAIN announced THEN announced[a] ELSE <<>>

\* the topics the documents announced for address a name under field
AnnouncedTopics(a, field) ==
    {AnnouncedFor(a)[k].payload.doc[field].s :
        k \in {j \in 1..Len(AnnouncedFor(a)) : field \in DOMAIN AnnouncedFor(a)[j].payload.doc}}

\* the entity kinds with a state topic of their own
StateKinds == {"binary_sensor", "sensor", "switch"}

\* a document of one of these kinds is announced for address a
HasStateKind(a) ==
    \E k \in 1..Len(AnnouncedFor(a)) : ComponentOf(AnnouncedFor(a)[k]) \in StateKinds

\* the observed notification is for a channel address with a snapshot
ChannelNotified == NotificationAccepted /\ IndexOf(last.address, ":", 1) > 0

\* no two addresses share an announced or a used attributes topic
NoSharedTopic ==
    /\ \A a, b \in DOMAIN announced :
           a /= b => AnnouncedTopics(a, "json_attributes_topic") \cap AnnouncedTopics(b, "json_attributes_topic") = {}
    /\ \A a, b \in DOMAIN attributes_sent :
           a /= b => attributes_sent[a].topic /= attributes_sent[b].topic

====
